---- MODULE Spec2Model ----
(***************************************************************************)
(* RxminderAPP backend: medication reminder schedules.                     *)
(*                                                                         *)
(* The model follows src/backend/main.py (the HTTP handlers),              *)
(* src/backend/utils.py (daterange, generate_daily_times),                 *)
(* src/backend/models.py (the rows) and src/backend/seed.py (the schema).  *)
(*                                                                         *)
(* Representation of values                                                *)
(*   date object            day number (an integer)                        *)
(*   ISO date string        <<day>>                                        *)
(*   time object            <<hour, minute, second>>                       *)
(*   time string            <<hh, mm>> ("HH:MM") or <<hh, mm, ss>>         *)
(*   datetime object        seconds since day 0, 00:00:00 (an integer)     *)
(*   ISO datetime string    <<day, hh, mm, ss>>, compared field by field   *)
(*                          as SQLite compares the fixed-width text        *)
(*   None / NULL            <<>>; an optional integer n is <<n>>           *)
(***************************************************************************)
EXTENDS Integers, Sequences, FiniteSets, TLC

VARIABLES
    db,         \* the committed content of the SQLite database
    now,        \* the latest reading of the wall clock, in seconds
    resp,       \* the response of the latest completed request
    delivered,  \* the trigger_time entries returned so far for the schedules
                \* that still exist: <<schedule id, trigger_time, k>> for the
                \* k-th time that value was returned for that schedule
    req,        \* the latest request, where a behaviour records it
    sess,       \* the GET /reminders requests in progress, per connection
    upd,        \* the PUT /prescriptions request in progress
    rd          \* the GET /prescriptions request in progress and what the
                \* latest completed one has read

vars == <<db, now, resp, delivered, req, sess, upd, rd>>

None == <<>>

(***************************************************************************)
(* Bounds of the model and inputs                                          *)
(***************************************************************************)
MaxScheds == 2      \* rows the schedules table ever receives (AUTOINCREMENT cap)
MaxUsers == 3       \* rows the users table ever receives, in the accounts behaviour

MAX_TIMES_PER_DAY == 50
DaySeconds == 86400

\* dates of the payloads and of the clock, as day numbers
Dates == {0, 1}
\* valid frequencies of the payloads
Freqs == {1, 2}
\* ids the users and medications tables allocate; the requests also name
\* user 2 and medication 3, which never exist
UserIds == {1}
MedIds == {1, 2}

\* wall-clock readings: 08:00:00 on each date
ClockTimes == {28800}
Clock == {d * DaySeconds + t : d \in Dates, t \in ClockTimes}

\* start_time strings: the POST bodies carry "08:00" (the default), the PUT
\* bodies omit it or carry "20:00:00"
DEFAULT_START_TIME == <<8, 0>>
Anchors == {DEFAULT_START_TIME}

(***************************************************************************)
(* Generic helpers                                                         *)
(***************************************************************************)
SetMax(S) == CHOOSE x \in S : \A y \in S : y <= x
SetMin(S) == CHOOSE x \in S : \A y \in S : x <= y

RECURSIVE SortedSeq(_)
SortedSeq(S) == IF S = {} THEN <<>> ELSE <<SetMin(S)>> \o SortedSeq(S \ {SetMin(S)})

RECURSIVE Flatten(_)
Flatten(ss) == IF ss = <<>> THEN <<>> ELSE Head(ss) \o Flatten(Tail(ss))

Range(s) == {s[i] : i \in DOMAIN s}

(***************************************************************************)
(* datetime / date / time conversions of the Python standard library       *)
(***************************************************************************)
\* time.fromisoformat("HH:MM" | "HH:MM:SS")
time_fromisoformat(s) == IF Len(s) = 2 THEN <<s[1], s[2], 0>> ELSE s

\* date.fromisoformat / date.isoformat
date_fromisoformat(s) == s[1]
date_isoformat(d) == <<d>>

\* datetime.combine(date, time)
datetime_combine(d, t) == d * DaySeconds + t[1] * 3600 + t[2] * 60 + t[3]

\* datetime.isoformat() of a datetime with whole seconds
datetime_isoformat(dt) ==
    LET sec == dt % DaySeconds
    IN  <<dt \div DaySeconds, sec \div 3600, (sec % 3600) \div 60, sec % 60>>

\* datetime.fromisoformat
datetime_fromisoformat(s) == s[1] * DaySeconds + s[2] * 3600 + s[3] * 60 + s[4]

\* SQLite's text comparison of two ISO datetime strings (ORDER BY reminder_time ASC)
RECURSIVE TextLessFrom(_, _, _)
TextLessFrom(a, b, i) ==
    IF i > Len(a) \/ i > Len(b) THEN Len(a) < Len(b)
    ELSE IF a[i] # b[i] THEN a[i] < b[i]
    ELSE TextLessFrom(a, b, i + 1)

\* variant: the date field is left out of the comparison
TextLess_time_only(a, b) == TextLessFrom(a, b, 2)

TextLess(a, b) == TextLessFrom(a, b, 1)

\* date.today()
Today == now \div DaySeconds

(***************************************************************************)
(* utils.py                                                                *)
(***************************************************************************)
\* variant: the dates are yielded from end down to start
daterange_descending(start, end) == [n \in 1..((end - start) + 1) |-> end - (n - 1)]

\* variant: the end date is left out of the range
daterange_exclusive(start, end) == [n \in 1..(end - start) |-> start + (n - 1)]

\* daterange(start, end): the dates start, start+1, ..., end (none if end < start)
daterange(start, end) == [n \in 1..((end - start) + 1) |-> start + (n - 1)]

\* variant: the interval is truncated to whole seconds before it is multiplied
DailySecond_whole_interval(frequency, start_seconds, k) ==
    (start_seconds + k * (DaySeconds \div frequency)) % DaySeconds

\* variant: k runs over 1..frequency instead of 0..frequency-1
DailySecond_from_one(frequency, start_seconds, k) ==
    ((start_seconds * frequency + (k + 1) * DaySeconds) \div frequency) % DaySeconds

\* int((start_seconds + k * interval) % 86400) with interval = 86400 / frequency.
\* The float expression equals the exact floor for every frequency 1..51 and
\* every whole-second anchor, so it is computed here on integers.
DailySecond(frequency, start_seconds, k) ==
    ((start_seconds * frequency + k * DaySeconds) \div frequency) % DaySeconds

generate_daily_times(frequency, start_time_str) ==
    IF frequency <= 0 THEN <<>>
    ELSE LET st == time_fromisoformat(start_time_str)
             start_seconds == st[1] * 3600 + st[2] * 60 + st[3]
         IN  [i \in 1..frequency |->
                LET sec == DailySecond(frequency, start_seconds, i - 1)
                IN  <<sec \div 3600, (sec % 3600) \div 60, sec % 60>>]

(***************************************************************************)
(* The database: tables of seed.py, rows of models.py                      *)
(*   users            id -> [username, email, parent_user_id]              *)
(*   medications      id -> [user_id, frequency]                           *)
(*   schedules        id -> [medication_id, created_at, start_date,        *)
(*                           end_date, next_reminder]                      *)
(*   reminders        rows [schedule_id, reminder_time, status] in rowid   *)
(*                    order                                                *)
(*   sqlite_sequence  the largest id each AUTOINCREMENT table has used     *)
(***************************************************************************)
EmptyTable == [i \in {} |-> 0]

EmptyDb ==
    [users |-> EmptyTable, medications |-> EmptyTable, schedules |-> EmptyTable,
     reminders |-> <<>>,
     sqlite_sequence |-> [users |-> 0, medications |-> 0, schedules |-> 0]]

Insert(tbl, id, row) == [i \in DOMAIN tbl \cup {id} |-> IF i = id THEN row ELSE tbl[i]]
DeleteRows(tbl, ids) == [i \in DOMAIN tbl \ ids |-> tbl[i]]

\* ON DELETE CASCADE from schedules to reminders
CascadeSchedules(D, sids) ==
    [D EXCEPT !.schedules = DeleteRows(@, sids),
              !.reminders = SelectSeq(@, LAMBDA r : r.schedule_id \notin sids)]

\* ON DELETE CASCADE from medications to schedules (and on to reminders)
CascadeMedications(D, mids) ==
    LET sids == {s \in DOMAIN D.schedules : D.schedules[s].medication_id \in mids}
    IN  [CascadeSchedules(D, sids) EXCEPT !.medications = DeleteRows(@, mids)]

\* select(Medication).where(Medication.user_id == user_id).all(), in rowid order
MedicationsOf(D, user_id) ==
    SortedSeq({m \in DOMAIN D.medications : D.medications[m].user_id = user_id})

SchedulesOf(D, med_id) ==
    {s \in DOMAIN D.schedules : D.schedules[s].medication_id = med_id}

\* variant: the SELECT finds no schedule
existing_schedule_none(D, med_id) == 0

\* select(Schedule).where(Schedule.medication_id == med_id).first(): 0 if none
existing_schedule(D, med_id) ==
    IF SchedulesOf(D, med_id) = {} THEN 0 ELSE SetMin(SchedulesOf(D, med_id))

\* select(Schedule)...order_by("created_at DESC").first(): 0 if none
latest_schedule(D, med_id) ==
    LET S == SchedulesOf(D, med_id)
        newest == {s \in S : \A t \in S :
                      ~TextLess(D.schedules[s].created_at, D.schedules[t].created_at)}
    IN  IF S = {} THEN 0 ELSE SetMin(newest)

\* the rows of one schedule, in rowid order
RemindersOf(D, sid) == SelectSeq(D.reminders, LAMBDA r : r.schedule_id = sid)

BaseResp ==
    [op |-> "", code |-> 0, med_id |-> 0, schedule_id |-> 0, next_reminder |-> None,
     created_reminder_count |-> 0, out |-> <<>>]

(***************************************************************************)
(* Expansion and initial pointer (create_prescription, update_prescription)*)
(***************************************************************************)
\* variant: only the start date is expanded
reminder_objs_start_only(schedule_id, start_date_obj, end_date_obj, times) ==
    [j \in DOMAIN times |->
        [schedule_id |-> schedule_id,
         reminder_time |-> datetime_isoformat(datetime_combine(start_date_obj, times[j])),
         status |-> "pending"]]

\* the two nested loops: every date of the range crossed with every time
reminder_objs(schedule_id, start_date_obj, end_date_obj, times) ==
    LET days == daterange(start_date_obj, end_date_obj)
    IN  Flatten([i \in DOMAIN days |->
                   [j \in DOMAIN times |->
                      [schedule_id |-> schedule_id,
                       reminder_time |-> datetime_isoformat(datetime_combine(days[i], times[j])),
                       status |-> "pending"]]])

\* earliest reminder_time > now_dt, as an ISO string, or None
next_candidates(objs, now_dt) ==
    {datetime_fromisoformat(objs[i].reminder_time) : i \in
        {j \in DOMAIN objs : datetime_fromisoformat(objs[j].reminder_time) > now_dt}}

\* variant: with no candidate the pointer is set to now
initial_next_reminder_or_now(objs, now_dt) ==
    IF next_candidates(objs, now_dt) # {}
    THEN datetime_isoformat(SetMin(next_candidates(objs, now_dt)))
    ELSE datetime_isoformat(now_dt)

\* variant: reminder_time >= now_dt instead of > now_dt
initial_next_reminder_at_or_after(objs, now_dt) ==
    LET cands == {datetime_fromisoformat(objs[i].reminder_time) : i \in
                     {j \in DOMAIN objs : datetime_fromisoformat(objs[j].reminder_time) >= now_dt}}
    IN  IF cands # {} THEN datetime_isoformat(SetMin(cands)) ELSE None

initial_next_reminder(objs, now_dt) ==
    IF next_candidates(objs, now_dt) # {}
    THEN datetime_isoformat(SetMin(next_candidates(objs, now_dt)))
    ELSE None

(***************************************************************************)
(* Request validation (pydantic models PrescriptionCreate/PrescriptionUpdate)*)
(***************************************************************************)
\* variant: the limit itself is rejected
check_frequency_limit_exclusive(v) == v > 0 /\ v < MAX_TIMES_PER_DAY

\* check_frequency_limit, with Field(gt=0)
check_frequency_limit(v) == v > 0 /\ v <= MAX_TIMES_PER_DAY

\* check_start_not_past: date.fromisoformat(v) >= date.today()
check_start_not_past(v, today) == ~(date_fromisoformat(v) < today)

\* PrescriptionCreate: frequency and start_date are required
PrescriptionCreateValid(payload, today) ==
    /\ check_frequency_limit(payload.frequency)
    /\ check_start_not_past(payload.start_date, today)

\* PrescriptionUpdate: every field optional, validated when given
PrescriptionUpdateValid(payload, today) ==
    /\ payload.frequency # None => check_frequency_limit(payload.frequency[1])
    /\ payload.start_date # None => check_start_not_past(payload.start_date, today)

(***************************************************************************)
(* POST /prescriptions                                                     *)
(***************************************************************************)
\* t is the clock reading of line 426, now_dt that of line 467
create_prescription(D, payload, t, now_dt) ==
    IF ~PrescriptionCreateValid(payload, t \div DaySeconds)
    THEN [db |-> D, resp |-> [BaseResp EXCEPT !.op = "create_prescription", !.code = 422]]
    ELSE IF payload.user_id \notin DOMAIN D.users
    THEN [db |-> D, resp |-> [BaseResp EXCEPT !.op = "create_prescription", !.code = 404]]
    ELSE
    LET med_id == D.sqlite_sequence.medications + 1
        schedule_id == D.sqlite_sequence.schedules + 1
        start_date_obj == date_fromisoformat(payload.start_date)
        end_date_obj == IF payload.end_date # None
                        THEN date_fromisoformat(payload.end_date) ELSE start_date_obj
        times == generate_daily_times(payload.frequency, payload.start_time)
        objs == reminder_objs(schedule_id, start_date_obj, end_date_obj, times)
        next_reminder == initial_next_reminder(objs, now_dt)
        med == [user_id |-> payload.user_id, frequency |-> payload.frequency]
        schedule == [medication_id |-> med_id,
                     created_at |-> datetime_isoformat(t),
                     start_date |-> date_isoformat(start_date_obj),
                     end_date |-> IF payload.end_date # None
                                  THEN date_isoformat(end_date_obj) ELSE None,
                     next_reminder |-> next_reminder]
    IN  [db |-> [D EXCEPT !.medications = Insert(@, med_id, med),
                          !.schedules = Insert(@, schedule_id, schedule),
                          !.reminders = @ \o objs,
                          !.sqlite_sequence.medications = med_id,
                          !.sqlite_sequence.schedules = schedule_id],
         resp |-> [BaseResp EXCEPT !.op = "create_prescription", !.code = 201,
                                   !.med_id = med_id, !.schedule_id = schedule_id,
                                   !.next_reminder = next_reminder,
                                   !.created_reminder_count = Len(objs)]]

(***************************************************************************)
(* PUT /prescriptions/{med_id}                                             *)
(***************************************************************************)
\* variant: the schedules of the medication are not deleted
update_delete_existing_keeps(D, med_id, payload) ==
    IF payload.frequency # None
    THEN [D EXCEPT !.medications[med_id].frequency = payload.frequency[1]]
    ELSE D

\* lines 516-533: the medication fields are updated, every schedule of the
\* medication is deleted (the reminders go with them)
update_delete_existing(D, med_id, payload) ==
    LET D1 == IF payload.frequency # None
              THEN [D EXCEPT !.medications[med_id].frequency = payload.frequency[1]]
              ELSE D
    IN  IF existing_schedule(D, med_id) # 0
        THEN CascadeSchedules(D1, SchedulesOf(D1, med_id))
        ELSE D1

\* lines 535-552: <<start_date_obj, end_date_obj>>, or None for the 400 answers
update_dates(D, med_id, payload) ==
    LET es == existing_schedule(D, med_id)
        old_start == IF es # 0 THEN D.schedules[es].start_date ELSE None
        old_end == IF es # 0 THEN D.schedules[es].end_date ELSE None
        start == IF payload.start_date # None THEN payload.start_date ELSE old_start
        end == IF payload.end_date # None THEN payload.end_date
               ELSE IF old_end # None THEN old_end ELSE start
    IN  IF start = None THEN None
        ELSE IF date_fromisoformat(end) < date_fromisoformat(start) THEN None
        ELSE <<date_fromisoformat(start), date_fromisoformat(end)>>

\* lines 536-541: neither the payload nor an existing schedule gives a
\* start date ('start_date is required when no existing schedule')
start_date_required(D, med_id, payload) ==
    /\ payload.start_date = None
    /\ existing_schedule(D, med_id) = 0

\* line 555: payload.frequency, else med.frequency or 1
update_frequency(D1, med_id, payload) ==
    IF payload.frequency # None THEN payload.frequency[1]
    ELSE IF D1.medications[med_id].frequency # 0 THEN D1.medications[med_id].frequency
    ELSE 1

\* lines 562-592: the new schedule row, pointer still NULL, and its reminders
update_insert_new(D1, med_id, payload, dates, t) ==
    LET schedule_id == D1.sqlite_sequence.schedules + 1
        start_time_str == IF payload.start_time # None
                          THEN payload.start_time ELSE DEFAULT_START_TIME
        times == generate_daily_times(update_frequency(D1, med_id, payload), start_time_str)
        new_schedule == [medication_id |-> med_id,
                         created_at |-> datetime_isoformat(t),
                         start_date |-> date_isoformat(dates[1]),
                         end_date |-> date_isoformat(dates[2]),
                         next_reminder |-> None]
    IN  [D1 EXCEPT !.schedules = Insert(@, schedule_id, new_schedule),
                   !.reminders = @ \o reminder_objs(schedule_id, dates[1], dates[2], times),
                   !.sqlite_sequence.schedules = schedule_id]

\* lines 594-600: the pointer of the schedule inserted last
update_set_pointer(D2, now_dt) ==
    LET schedule_id == D2.sqlite_sequence.schedules
    IN  [D2 EXCEPT !.schedules[schedule_id].next_reminder =
                       initial_next_reminder(RemindersOf(D2, schedule_id), now_dt)]

update_prescription(D, med_id, payload, t, now_dt) ==
    IF ~PrescriptionUpdateValid(payload, t \div DaySeconds)
    THEN [db |-> D, resp |-> [BaseResp EXCEPT !.op = "update_prescription", !.code = 422]]
    ELSE IF med_id \notin DOMAIN D.medications
    THEN [db |-> D, resp |-> [BaseResp EXCEPT !.op = "update_prescription", !.code = 404]]
    ELSE IF update_dates(D, med_id, payload) = None
    THEN \* HTTPException inside the session: nothing is committed
         [db |-> D, resp |-> [BaseResp EXCEPT !.op = "update_prescription", !.code = 400,
                                              !.med_id = med_id]]
    ELSE
    LET D1 == update_delete_existing(D, med_id, payload)
        D2 == update_insert_new(D1, med_id, payload, update_dates(D, med_id, payload), t)
        D3 == update_set_pointer(D2, now_dt)
        schedule_id == D3.sqlite_sequence.schedules
    IN  [db |-> D3,
         resp |-> [BaseResp EXCEPT !.op = "update_prescription", !.code = 200,
                                   !.med_id = med_id, !.schedule_id = schedule_id,
                                   !.next_reminder = D3.schedules[schedule_id].next_reminder,
                                   !.created_reminder_count =
                                       Len(RemindersOf(D3, schedule_id))]]

(***************************************************************************)
(* DELETE /prescriptions/{med_id}, POST /users, DELETE /users/{user_id}    *)
(***************************************************************************)
\* variant: every medication of the owning user is removed
delete_prescription_all_of_user(D, med_id) ==
    IF med_id \notin DOMAIN D.medications
    THEN [db |-> D, resp |-> [BaseResp EXCEPT !.op = "delete_prescription", !.code = 404]]
    ELSE [db |-> CascadeMedications(D,
                    {m \in DOMAIN D.medications :
                        D.medications[m].user_id = D.medications[med_id].user_id}),
          resp |-> [BaseResp EXCEPT !.op = "delete_prescription", !.code = 204,
                                    !.med_id = med_id]]

delete_prescription(D, med_id) ==
    IF med_id \notin DOMAIN D.medications
    THEN [db |-> D, resp |-> [BaseResp EXCEPT !.op = "delete_prescription", !.code = 404]]
    ELSE [db |-> CascadeMedications(D, {med_id}),
          resp |-> [BaseResp EXCEPT !.op = "delete_prescription", !.code = 204,
                                    !.med_id = med_id]]

\* UserCreate: username of 3 characters or more, email local@domain, password
\* of 6 characters or more
UserCreateValid(payload) ==
    /\ Len(payload.username) >= 3
    /\ Len(payload.email) = 2
    /\ Len(payload.password) >= 6

\* select(User).where((User.username == ...) | (User.email == ...)).first()
existing_user(D, payload) ==
    {u \in DOMAIN D.users :
        D.users[u].username = payload.username \/ D.users[u].email = payload.email}

\* session.add(User(...)); session.commit()
insert_user(D, payload, parent_user_id) ==
    LET id == D.sqlite_sequence.users + 1
    IN  [D EXCEPT !.users = Insert(@, id, [username |-> payload.username,
                                          email |-> payload.email,
                                          parent_user_id |-> parent_user_id]),
                  !.sqlite_sequence.users = id]

\* variant: only the username is looked up
create_user_username_only(D, payload) ==
    IF ~UserCreateValid(payload)
    THEN [db |-> D, resp |-> [BaseResp EXCEPT !.op = "create_user", !.code = 422]]
    ELSE IF \E u \in DOMAIN D.users : D.users[u].username = payload.username
    THEN [db |-> D, resp |-> [BaseResp EXCEPT !.op = "create_user", !.code = 409]]
    ELSE [db |-> insert_user(D, payload, None),
          resp |-> [BaseResp EXCEPT !.op = "create_user", !.code = 201]]

create_user(D, payload) ==
    IF ~UserCreateValid(payload)
    THEN [db |-> D, resp |-> [BaseResp EXCEPT !.op = "create_user", !.code = 422]]
    ELSE IF existing_user(D, payload) # {}
    THEN [db |-> D, resp |-> [BaseResp EXCEPT !.op = "create_user", !.code = 409]]
    ELSE [db |-> insert_user(D, payload, None),
          resp |-> [BaseResp EXCEPT !.op = "create_user", !.code = 201]]

\* POST /users/{parent_id}/subusers
create_subuser(D, parent_id, payload) ==
    IF ~UserCreateValid(payload)
    THEN [db |-> D, resp |-> [BaseResp EXCEPT !.op = "create_subuser", !.code = 422]]
    ELSE IF parent_id \notin DOMAIN D.users
    THEN [db |-> D, resp |-> [BaseResp EXCEPT !.op = "create_subuser", !.code = 404]]
    ELSE IF existing_user(D, payload) # {}
    THEN [db |-> D, resp |-> [BaseResp EXCEPT !.op = "create_subuser", !.code = 409]]
    ELSE [db |-> insert_user(D, payload, <<parent_id>>),
          resp |-> [BaseResp EXCEPT !.op = "create_subuser", !.code = 201]]

\* variant: the rows that reference the user stay (no ON DELETE CASCADE)
delete_user_no_cascade(D, user_id) ==
    IF user_id \notin DOMAIN D.users
    THEN [db |-> D, resp |-> [BaseResp EXCEPT !.op = "delete_user", !.code = 404]]
    ELSE [db |-> [D EXCEPT !.users = DeleteRows(@, {user_id})],
          resp |-> [BaseResp EXCEPT !.op = "delete_user", !.code = 204]]

delete_user(D, user_id) ==
    IF user_id \notin DOMAIN D.users
    THEN [db |-> D, resp |-> [BaseResp EXCEPT !.op = "delete_user", !.code = 404]]
    ELSE LET mids == {m \in DOMAIN D.medications : D.medications[m].user_id = user_id}
         IN  [db |-> [CascadeMedications(D, mids) EXCEPT !.users = DeleteRows(@, {user_id})],
              resp |-> [BaseResp EXCEPT !.op = "delete_user", !.code = 204]]

(***************************************************************************)
(* GET /reminders/{user_id}                                                *)
(***************************************************************************)
\* variant: the matching reminder is marked and the other reminders of the
\* schedule are set back to 'pending'
mark_scheduled_reopens(D, schedule_id, next_rem) ==
    [D EXCEPT !.reminders =
        [i \in DOMAIN D.reminders |->
            IF D.reminders[i].schedule_id # schedule_id THEN D.reminders[i]
            ELSE [D.reminders[i] EXCEPT !.status =
                     IF D.reminders[i].reminder_time = next_rem
                     THEN "scheduled" ELSE "pending"]]]

\* variant: when no reminder matches, the first reminder of the schedule is
\* marked instead
mark_scheduled_or_first(D, schedule_id, next_rem) ==
    LET rem == {i \in DOMAIN D.reminders :
                   /\ D.reminders[i].schedule_id = schedule_id
                   /\ D.reminders[i].reminder_time = next_rem}
        rows == {i \in DOMAIN D.reminders : D.reminders[i].schedule_id = schedule_id}
    IN  IF rem # {} THEN [D EXCEPT !.reminders[SetMin(rem)].status = "scheduled"]
        ELSE IF rows # {} THEN [D EXCEPT !.reminders[SetMin(rows)].status = "scheduled"]
        ELSE D

\* variant: the matching reminder keeps its status
mark_scheduled_nothing(D, schedule_id, next_rem) == D

\* variant: the SELECT has no schedule_id condition
mark_scheduled_any_schedule(D, schedule_id, next_rem) ==
    LET rem == {i \in DOMAIN D.reminders : D.reminders[i].reminder_time = next_rem}
    IN  IF rem # {}
        THEN [D EXCEPT !.reminders[SetMin(rem)].status = "scheduled"]
        ELSE D

\* lines 672-680: the first reminder of the schedule whose reminder_time
\* equals next_rem gets status 'scheduled'
mark_scheduled(D, schedule_id, next_rem) ==
    LET rem == {i \in DOMAIN D.reminders :
                   /\ D.reminders[i].schedule_id = schedule_id
                   /\ D.reminders[i].reminder_time = next_rem}
    IN  IF rem # {}
        THEN [D EXCEPT !.reminders[SetMin(rem)].status = "scheduled"]
        ELSE D

\* variant: the pending reminders are not told from the scheduled ones
next_pending_any_status(D, schedule_id) ==
    LET rows == {i \in DOMAIN D.reminders : D.reminders[i].schedule_id = schedule_id}
        first == {i \in rows : \A j \in rows :
                     ~TextLess(D.reminders[j].reminder_time, D.reminders[i].reminder_time)}
    IN  IF rows = {} THEN None ELSE D.reminders[SetMin(first)].reminder_time

\* variant: ORDER BY reminder_time DESC
next_pending_latest(D, schedule_id) ==
    LET pending == {i \in DOMAIN D.reminders :
                       /\ D.reminders[i].schedule_id = schedule_id
                       /\ D.reminders[i].status = "pending"}
        last == {i \in pending : \A j \in pending :
                    ~TextLess(D.reminders[i].reminder_time, D.reminders[j].reminder_time)}
    IN  IF pending = {} THEN None ELSE D.reminders[SetMin(last)].reminder_time

\* lines 682-687: reminder_time of the first pending reminder of the schedule
\* in ORDER BY reminder_time ASC, or None
next_pending(D, schedule_id) ==
    LET pending == {i \in DOMAIN D.reminders :
                       /\ D.reminders[i].schedule_id = schedule_id
                       /\ D.reminders[i].status = "pending"}
        first == {i \in pending : \A j \in pending :
                     ~TextLess(D.reminders[j].reminder_time, D.reminders[i].reminder_time)}
    IN  IF pending = {} THEN None ELSE D.reminders[SetMin(first)].reminder_time

\* variant: the reminder is marked, schedule.next_reminder is left as it was
consume_next_keep_pointer(D, schedule_id, next_rem) ==
    mark_scheduled(D, schedule_id, next_rem)

\* lines 672-693 for one schedule
consume_next(D, schedule_id, next_rem) ==
    LET D1 == mark_scheduled(D, schedule_id, next_rem)
    IN  [D1 EXCEPT !.schedules[schedule_id].next_reminder = next_pending(D1, schedule_id)]

\* variant: the loop ends at the first medication it has to skip
RECURSIVE reminders_loop_break(_, _, _, _)
reminders_loop_break(D, meds, out, served) ==
    IF meds = <<>> THEN [db |-> D, out |-> out, served |-> served]
    ELSE LET med == Head(meds)
             schedule == latest_schedule(D, med)
             next_rem == IF schedule = 0 THEN None ELSE D.schedules[schedule].next_reminder
         IN  IF schedule = 0 \/ next_rem = None
             THEN [db |-> D, out |-> out, served |-> served]
             ELSE reminders_loop_break(consume_next(D, schedule, next_rem), Tail(meds),
                                       Append(out, [trigger_time |-> next_rem, med |-> med]),
                                       Append(served, <<schedule, next_rem>>))

\* the loop over the user's medications (lines 650-693); served lists the
\* <<schedule id, trigger_time>> behind the entries of out
RECURSIVE reminders_loop(_, _, _, _)
reminders_loop(D, meds, out, served) ==
    IF meds = <<>> THEN [db |-> D, out |-> out, served |-> served]
    ELSE LET med == Head(meds)
             schedule == latest_schedule(D, med)
             next_rem == IF schedule = 0 THEN None ELSE D.schedules[schedule].next_reminder
         IN  IF schedule = 0 \/ next_rem = None
             THEN reminders_loop(D, Tail(meds), out, served)
             ELSE reminders_loop(consume_next(D, schedule, next_rem), Tail(meds),
                                 Append(out, [trigger_time |-> next_rem, med |-> med]),
                                 Append(served, <<schedule, next_rem>>))

get_user_reminders(D, user_id) ==
    LET r == reminders_loop(D, MedicationsOf(D, user_id), <<>>, <<>>)
    IN  [db |-> r.db,
         resp |-> [BaseResp EXCEPT !.op = "get_user_reminders", !.code = 200,
                                   !.out = r.out],
         served |-> r.served]

(***************************************************************************)
(* Requests tried                                                          *)
(***************************************************************************)
Opt(S) == {None} \cup {<<x>> : x \in S}

\* POST /users bodies: the one sent for the user that gets id 1, and for id 2
UserBodies ==
    << [username |-> "alice", email |-> <<"alice", "example.com">>, password |-> "sadddd"],
       [username |-> "parentA", email |-> <<"parentA", "example.com">>,
        password |-> "pw12345"] >>

\* POST /prescriptions bodies: the valid ones for an allocated user id, one
\* for user 2 (never created), and one per rejected frequency (0 and
\* MAX_TIMES_PER_DAY + 1); a start_date in the past arises as the clock advances
CreatePayloads ==
    [user_id : UserIds, frequency : Freqs,
     start_date : {<<d>> : d \in Dates}, end_date : Opt(Dates), start_time : Anchors]
    \cup
    [user_id : {2}, frequency : {1}, start_date : {<<SetMax(Dates)>>},
     end_date : {None}, start_time : {DEFAULT_START_TIME}]
    \cup
    [user_id : UserIds, frequency : {0, MAX_TIMES_PER_DAY + 1},
     start_date : {<<SetMax(Dates)>>}, end_date : {None}, start_time : {DEFAULT_START_TIME}]

\* PUT /prescriptions/{med_id} bodies: every field optional
UpdatePayloads ==
    [frequency : Opt(Freqs), start_date : Opt(Dates), end_date : Opt(Dates),
     start_time : {None, <<20, 0, 0>>}]
    \cup
    [frequency : {<<MAX_TIMES_PER_DAY + 1>>}, start_date : {None}, end_date : {None},
     start_time : {None}]

\* PUT requests: every body for an allocated med_id, one for medication 3
UpdateRequests ==
    (MedIds \X UpdatePayloads)
    \cup {<<3, [frequency |-> <<1>>, start_date |-> None, end_date |-> None,
               start_time |-> None]>>}

(***************************************************************************)
(* The log of returned trigger_time values                                 *)
(***************************************************************************)
RECURSIVE Log(_, _)
Log(del, served) ==
    IF served = <<>> THEN del
    ELSE LET e == Head(served)
             k == Cardinality({x \in del : x[1] = e[1] /\ x[2] = e[2]})
         IN  Log(del \cup {<<e[1], e[2], k + 1>>}, Tail(served))

\* entries of schedules that no longer exist are dropped
Prune(del, D) == {x \in del : x[1] \in DOMAIN D.schedules}

(***************************************************************************)
(* Sequential behaviour: one request at a time, each handler whole.        *)
(* A handler reads the clock once; the model takes the readings of lines   *)
(* 426 and 467 (563 and 595) to be the same instant.                       *)
(***************************************************************************)
\* no request in progress
Connections == {1, 2}

IdleSess == [stage |-> "idle", med |-> 0, schedule |-> 0, next_rem |-> None, rest |-> <<>>]

IdleUpd ==
    [stage |-> "idle", med_id |-> 0,
     payload |-> [frequency |-> None, start_date |-> None, end_date |-> None,
                  start_time |-> None],
     before |-> EmptyDb, tx |-> EmptyDb]

IdleRd ==
    [stage |-> "idle", meds |-> <<>>, schedule |-> 0, next_reminder |-> None,
     inside |-> FALSE, out |-> <<>>, during |-> FALSE, before |-> EmptyDb]

NoneInProgress ==
    /\ sess = [c \in Connections |-> IdleSess]
    /\ upd = IdleUpd
    /\ rd = IdleRd

Init ==
    /\ db = EmptyDb
    /\ now = SetMin(Clock)
    /\ resp = BaseResp
    /\ delivered = {}
    /\ req = None
    /\ NoneInProgress

Answer(r) ==
    /\ db' = r.db
    /\ resp' = r.resp
    /\ delivered' = Prune(delivered, r.db)
    /\ UNCHANGED now

TickTo(t) ==
    /\ t > now
    /\ now' = t
    /\ UNCHANGED <<db, resp, delivered>>

CreateUserReq ==
    /\ db.sqlite_sequence.users + 1 \in UserIds
    /\ Answer(create_user(db, UserBodies[db.sqlite_sequence.users + 1]))

DeleteUserReq(user_id) == Answer(delete_user(db, user_id))

CreatePrescriptionReq(payload) ==
    /\ db.sqlite_sequence.medications + 1 \in MedIds
    /\ db.sqlite_sequence.schedules < MaxScheds
    /\ Answer(create_prescription(db, payload, now, now))

UpdatePrescriptionReq(med_id, payload) ==
    /\ db.sqlite_sequence.schedules < MaxScheds
    /\ Answer(update_prescription(db, med_id, payload, now, now))

DeletePrescriptionReq(med_id) == Answer(delete_prescription(db, med_id))

GetUserRemindersReq(user_id) ==
    LET r == get_user_reminders(db, user_id)
    IN  /\ db' = r.db
        /\ resp' = r.resp
        /\ delivered' = Log(delivered, r.served)
        /\ UNCHANGED now

Tick == (\E t \in Clock : TickTo(t)) /\ UNCHANGED <<req, sess, upd, rd>>

CreateUser == CreateUserReq /\ UNCHANGED <<req, sess, upd, rd>>

DeleteUser == (\E user_id \in UserIds \cup {2} : DeleteUserReq(user_id)) /\ UNCHANGED <<req, sess, upd, rd>>

CreatePrescription ==
    (\E payload \in CreatePayloads : CreatePrescriptionReq(payload)) /\ UNCHANGED <<req, sess, upd, rd>>

UpdatePrescription ==
    (\E rq \in UpdateRequests : UpdatePrescriptionReq(rq[1], rq[2])) /\ UNCHANGED <<req, sess, upd, rd>>

DeletePrescription ==
    (\E med_id \in MedIds \cup {3} : DeletePrescriptionReq(med_id)) /\ UNCHANGED <<req, sess, upd, rd>>

GetUserReminders ==
    (\E user_id \in UserIds \cup {2} : GetUserRemindersReq(user_id)) /\ UNCHANGED <<req, sess, upd, rd>>

Next ==
    \/ Tick
    \/ CreateUser
    \/ DeleteUser
    \/ CreatePrescription
    \/ UpdatePrescription
    \/ DeletePrescription
    \/ GetUserReminders

Spec == Init /\ [][Next]_vars

(***************************************************************************)
(* Vocabulary of the properties                                            *)
(***************************************************************************)
\* row numbers of the occurrences of schedule s
RowsOf(D, s) == {i \in DOMAIN D.reminders : D.reminders[i].schedule_id = s}

TimeOfRow(D, i) == datetime_fromisoformat(D.reminders[i].reminder_time)

AllTimes(D, s) == {TimeOfRow(D, i) : i \in RowsOf(D, s)}

PendingRows(D, s) == {i \in RowsOf(D, s) : D.reminders[i].status = "pending"}

PendingTimes(D, s) == {TimeOfRow(D, i) : i \in PendingRows(D, s)}

NumPending(D, s) == Cardinality(PendingRows(D, s))

NumDelivered(D, s) == Cardinality(RowsOf(D, s) \ PendingRows(D, s))

\* the earliest pending timestamp of schedule s as an ISO string, or None
EarliestPending(D, s) ==
    IF PendingTimes(D, s) = {} THEN None
    ELSE datetime_isoformat(SetMin(PendingTimes(D, s)))

Pointer(D, s) == D.schedules[s].next_reminder

OwnerOf(D, s) == D.medications[D.schedules[s].medication_id].user_id

\* a step that is a whole GET /reminders/{u}
ConsumeStep(u) == resp'.op = "get_user_reminders" /\ GetUserRemindersReq(u)

\* the schedules that a GET /reminders/{u} finds with a pointer
Consumable(u) ==
    {s \in DOMAIN db.schedules : OwnerOf(db, s) = u /\ Pointer(db, s) # None}

\* a step that commits a new schedule (POST or PUT /prescriptions answered 201/200)
NewScheduleStep ==
    /\ resp'.op \in {"create_prescription", "update_prescription"}
    /\ resp'.code \in {200, 201}
    /\ db' # db

(***************************************************************************)
(* C1  Consume-and-advance                                                 *)
(***************************************************************************)
C1Post(s) ==
    LET p == Pointer(db, s)
    IN  /\ Len(db'.reminders) = Len(db.reminders)
        /\ \A i \in RowsOf(db, s) :
              /\ db.reminders[i].reminder_time = p => db'.reminders[i].status # "pending"
              /\ db.reminders[i].reminder_time # p => db'.reminders[i] = db.reminders[i]
        /\ Pointer(db', s) = EarliestPending(db', s)

\* C1: a get_user_reminders call on a schedule whose next_reminder is present
\* leaves the occurrence with that timestamp not pending, changes no other
\* occurrence of the schedule, and sets next_reminder to the minimum timestamp
\* still pending (no comparison with now), or to None when nothing is pending.
C1_ConsumeAndAdvance ==
    [][\A u \in UserIds : ConsumeStep(u) => \A s \in Consumable(u) : C1Post(s)]_vars

\* a consume has moved a pointer on to a later pending occurrence
C1_Witness ==
    /\ resp.op = "get_user_reminders"
    /\ resp.out # <<>>
    /\ \E s \in DOMAIN db.schedules :
          /\ NumDelivered(db, s) = 1
          /\ NumPending(db, s) >= 2
          /\ Pointer(db, s) # None

(***************************************************************************)
(* C2  Initial pointer                                                     *)
(***************************************************************************)
FutureTimes(D, s, t) == {x \in AllTimes(D, s) : x > t}

\* C2: right after create_prescription or update_prescription commits, the new
\* schedule's next_reminder is the minimum generated timestamp strictly greater
\* than now, and None exactly when no generated timestamp is greater than now.
C2_InitialPointer ==
    [][NewScheduleStep =>
         LET s == resp'.schedule_id
             expected == IF FutureTimes(db', s, now') = {} THEN None
                         ELSE datetime_isoformat(SetMin(FutureTimes(db', s, now')))
         IN  /\ Pointer(db', s) = expected
             /\ resp'.next_reminder = expected
             /\ (Pointer(db', s) = None) <=> (FutureTimes(db', s, now') = {})]_vars

\* an update has just installed a schedule whose pointer skips an occurrence
\* that is not later than now
C2_Witness ==
    /\ resp.op = "update_prescription"
    /\ resp.code = 200
    /\ resp.next_reminder # None
    /\ \E x \in AllTimes(db, resp.schedule_id) : x <= now

(***************************************************************************)
(* C3  Termination of repeated consumes                                    *)
(***************************************************************************)
\* C3 as claimed: consumes stop (pointer absent) exactly when every occurrence
\* of the schedule has been delivered, so K pending occurrences take K calls.
C3_Original ==
    \A s \in DOMAIN db.schedules : (Pointer(db, s) = None) <=> (NumPending(db, s) = 0)

C3Inv ==
    \A s \in DOMAIN db.schedules :
        /\ Pointer(db, s) # None => NumPending(db, s) >= 1
        /\ (Pointer(db, s) = None /\ NumPending(db, s) > 0) =>
              /\ NumDelivered(db, s) = 0
              /\ \A x \in AllTimes(db, s) : x <= now

C3Step ==
    \A u \in UserIds : ConsumeStep(u) => \A s \in Consumable(u) :
        /\ NumPending(db', s) = NumPending(db, s) - 1
        /\ NumDelivered(db', s) = NumDelivered(db, s) + 1
        /\ (Pointer(db', s) = None) <=> (NumPending(db', s) = 0)

\* C3 (amended): while next_reminder is present some occurrence is pending and
\* each get_user_reminders call delivers exactly one pending occurrence, the
\* pointer becoming absent exactly at the call that delivers the last one; a
\* pointer that is absent while occurrences are pending belongs to a schedule
\* none of whose occurrences was later than now at creation, and none of them
\* has been delivered.
C3_Termination == []C3Inv /\ [][C3Step]_vars

\* a schedule with several occurrences, all delivered, pointer absent
C3_Witness ==
    \E s \in DOMAIN db.schedules :
        /\ Cardinality(RowsOf(db, s)) >= 2
        /\ NumPending(db, s) = 0
        /\ Pointer(db, s) = None
        /\ resp.op = "get_user_reminders"

(***************************************************************************)
(* C4  Order of the successive pointers                                    *)
(***************************************************************************)
\* C4 as claimed: every consume moves next_reminder to a strictly greater
\* timestamp.
C4_Original ==
    [][\A u \in UserIds : ConsumeStep(u) => \A s \in Consumable(u) :
          Pointer(db', s) # None =>
              datetime_fromisoformat(Pointer(db', s)) > datetime_fromisoformat(Pointer(db, s))]_vars

\* C4 (amended): from the second consume of a schedule on, each new
\* next_reminder is strictly greater than the previous one; the first consume
\* after creation may move it back, and then to the earliest occurrence of the
\* schedule, one that is not later than now.
C4_MonotoneAfterFirst ==
    [][\A u \in UserIds : ConsumeStep(u) => \A s \in Consumable(u) :
          Pointer(db', s) # None =>
              LET p == datetime_fromisoformat(Pointer(db, s))
                  q == datetime_fromisoformat(Pointer(db', s))
              IN  /\ q # p
                  /\ NumDelivered(db, s) >= 1 => q > p
                  /\ q < p => /\ NumDelivered(db, s) = 0
                              /\ q <= now
                              /\ q = SetMin(AllTimes(db, s))]_vars

\* a third consume has advanced the pointer of a schedule of two days
C4_Witness ==
    /\ resp.op = "get_user_reminders"
    /\ \E s \in DOMAIN db.schedules :
          /\ NumDelivered(db, s) >= 3
          /\ Pointer(db, s) # None
          /\ \E x, y \in AllTimes(db, s) : x \div DaySeconds # y \div DaySeconds

(***************************************************************************)
(* C5  What the pointer refers to                                          *)
(***************************************************************************)
\* C5 as claimed: in every state next_reminder is the earliest pending
\* occurrence of its schedule, absent only when none is pending.
C5_Original ==
    \A s \in DOMAIN db.schedules : Pointer(db, s) = EarliestPending(db, s)

\* C5 (amended): a present next_reminder is the timestamp of a pending
\* occurrence of its schedule. Once an occurrence of the schedule has been
\* delivered it is the earliest pending one and absent only when none is
\* pending; before the first delivery every pending occurrence earlier than it
\* is not later than now, and it is absent only when no occurrence is later
\* than now.
C5_PointerRefersToPending ==
    \A s \in DOMAIN db.schedules :
        /\ Pointer(db, s) # None =>
              datetime_fromisoformat(Pointer(db, s)) \in PendingTimes(db, s)
        /\ NumDelivered(db, s) >= 1 => Pointer(db, s) = EarliestPending(db, s)
        /\ (NumDelivered(db, s) = 0 /\ Pointer(db, s) # None) =>
              \A x \in PendingTimes(db, s) :
                  x < datetime_fromisoformat(Pointer(db, s)) => x <= now
        /\ (NumDelivered(db, s) = 0 /\ Pointer(db, s) = None) =>
              \A x \in AllTimes(db, s) : x <= now

\* after a delivery the pointer is the earliest pending occurrence, and that
\* occurrence is already due
C5_Witness ==
    \E s \in DOMAIN db.schedules :
        /\ NumDelivered(db, s) >= 1
        /\ Pointer(db, s) # None
        /\ Pointer(db, s) = EarliestPending(db, s)
        /\ datetime_fromisoformat(Pointer(db, s)) <= now

(***************************************************************************)
(* The generator and the expansion on their own: generate_daily_times for  *)
(* every frequency 0..MAX_TIMES_PER_DAY and a range of anchors, then the    *)
(* two nested loops of the expansion over a date range.  req holds the      *)
(* inputs, resp.out the result.                                             *)
(***************************************************************************)
GenAnchors == {<<0, 0>>, <<8, 0>>, <<12, 34, 56>>, <<20, 0, 0>>, <<23, 59, 59>>}

GenInputs ==
    [frequency : 0..MAX_TIMES_PER_DAY, start_time : GenAnchors,
     start_date : Dates, end_date : Dates]

InitGen ==
    /\ db = EmptyDb
    /\ now = SetMin(Clock)
    /\ resp = BaseResp
    /\ delivered = {}
    /\ req \in GenInputs
    /\ NoneInProgress

Generate ==
    /\ resp.op = ""
    /\ resp' = [BaseResp EXCEPT !.op = "generate_daily_times",
                                !.out = generate_daily_times(req.frequency, req.start_time)]
    /\ UNCHANGED <<db, now, delivered, req, sess, upd, rd>>

Expand ==
    /\ resp.op = "generate_daily_times"
    /\ resp' = [BaseResp EXCEPT !.op = "expand",
                                !.out = reminder_objs(0, req.start_date, req.end_date, resp.out)]
    /\ UNCHANGED <<db, now, delivered, req, sess, upd, rd>>

NextGen == Generate \/ Expand

SpecGen == InitGen /\ [][NextGen]_vars

AnchorSeconds(start_time_str) ==
    LET st == time_fromisoformat(start_time_str)
    IN  st[1] * 3600 + st[2] * 60 + st[3]

\* the state holds an expansion of a non-empty date range for a valid frequency
Expanded ==
    /\ resp.op = "expand"
    /\ req.frequency >= 1
    /\ req.start_date <= req.end_date

OccTime(i) == datetime_fromisoformat(resp.out[i].reminder_time)

NoWrap ==
    AnchorSeconds(req.start_time) + ((req.frequency - 1) * DaySeconds) \div req.frequency
        < DaySeconds

C10_GenerateDistinct ==
    (resp.op = "generate_daily_times" /\ req.frequency \in 1..MAX_TIMES_PER_DAY) =>
        /\ Len(resp.out) = req.frequency
        /\ \A i, j \in DOMAIN resp.out : i # j => resp.out[i] # resp.out[j]
        /\ resp.out[1] = time_fromisoformat(req.start_time)

\* the largest frequency, from an anchor one second before midnight
C10_Witness ==
    /\ resp.op = "generate_daily_times"
    /\ req.frequency = MAX_TIMES_PER_DAY
    /\ req.start_time = <<23, 59, 59>>
    /\ Len(resp.out) = MAX_TIMES_PER_DAY

(***************************************************************************)
(* Sequential behaviour with the request on record: POST and PUT            *)
(* /prescriptions keep their body in req, so that a response can be held    *)
(* against the request that produced it.  One medication is prescribed,     *)
(* its reminders are fetched, and it is updated.                            *)
(***************************************************************************)
RecTick == (\E t \in Clock : TickTo(t)) /\ UNCHANGED <<req, sess, upd, rd>>

RecCreateUser == CreateUserReq /\ UNCHANGED <<req, sess, upd, rd>>

RecCreatePrescription ==
    \E payload \in CreatePayloads :
        /\ db.sqlite_sequence.medications = 0
        /\ CreatePrescriptionReq(payload)
        /\ req' = [op |-> "create_prescription", med_id |-> 0, payload |-> payload]
        /\ UNCHANGED <<sess, upd, rd>>

RecUpdatePrescription ==
    \E rq \in UpdateRequests :
        /\ rq[1] # 2
        /\ UpdatePrescriptionReq(rq[1], rq[2])
        /\ req' = [op |-> "update_prescription", med_id |-> rq[1], payload |-> rq[2]]
        /\ UNCHANGED <<sess, upd, rd>>

RecGetUserReminders == GetUserRemindersReq(1) /\ UNCHANGED <<req, sess, upd, rd>>

NextReq ==
    \/ RecTick
    \/ RecCreateUser
    \/ RecCreatePrescription
    \/ RecUpdatePrescription
    \/ RecGetUserReminders

SpecReq == Init /\ [][NextReq]_vars

(***************************************************************************)
(* C8  Number of occurrences generated                                     *)
(***************************************************************************)
\* the inputs the request of this step asks for: the payload's, and on update
\* the superseded schedule's dates and the medication's frequency where the
\* payload omits them (an absent end date is the start date)
AskedFrequency ==
    IF req'.op = "create_prescription" THEN req'.payload.frequency
    ELSE IF req'.payload.frequency # None THEN req'.payload.frequency[1]
    ELSE db.medications[req'.med_id].frequency

Superseded == SetMin(SchedulesOf(db, req'.med_id))

AskedStart ==
    IF req'.payload.start_date # None THEN req'.payload.start_date[1]
    ELSE db.schedules[Superseded].start_date[1]

AskedEnd ==
    IF req'.payload.end_date # None THEN req'.payload.end_date[1]
    ELSE IF req'.op = "update_prescription" /\ db.schedules[Superseded].end_date # None
    THEN db.schedules[Superseded].end_date[1]
    ELSE AskedStart

\* C8: for start <= end and a valid frequency F, create_prescription and
\* update_prescription store exactly (end - start + 1) * F occurrences for the
\* new schedule and report that number as created_reminder_count; on update
\* the dates are the payload's or, where omitted, the superseded schedule's.
C8_OccurrenceCount ==
    [][(NewScheduleStep /\ AskedStart <= AskedEnd) =>
          LET n == (AskedEnd - AskedStart + 1) * AskedFrequency
              s == resp'.schedule_id
          IN  /\ Cardinality(RowsOf(db', s)) = n
              /\ resp'.created_reminder_count = n
              /\ db'.schedules[s].start_date = <<AskedStart>>
              /\ \A x \in AllTimes(db', s) :
                    x \div DaySeconds \in AskedStart..AskedEnd]_vars

\* an update that names neither date has regenerated two days of two occurrences
C8_Witness ==
    /\ req # None
    /\ req.op = "update_prescription"
    /\ req.payload.start_date = None
    /\ req.payload.end_date = None
    /\ resp.op = "update_prescription"
    /\ resp.code = 200
    /\ resp.created_reminder_count = 4

(***************************************************************************)
(* Concurrent requests.  Every request opens its own Session(engine), that *)
(* is its own SQLite connection.  A SELECT outside a transaction reads the  *)
(* committed database; the connection begins its transaction at the first   *)
(* INSERT/UPDATE/DELETE it flushes and from then on is the only writer      *)
(* until it commits or rolls back.  A request is therefore cut where        *)
(* another connection can get in: before its first write, and, for the      *)
(* writer, between the flushes of its open transaction.                     *)
(*                                                                         *)
(* One medication is prescribed.                                            *)
(***************************************************************************)
\* variant: a SELECT of another connection sees what the writer has flushed
reader_view_dirty(committed, writer) ==
    IF writer.stage \in {"deleted", "inserted"} THEN writer.tx ELSE committed

\* what the SELECT of a connection without a transaction reads while writer
\* has a transaction open: the committed rows
reader_view(committed, writer) == committed

WriteLocked == upd.stage \in {"deleted", "inserted"}

\* variant: what the transaction has flushed stays
rollback_keeps_flushed(committed, tx) == tx

\* the session is closed on an exception: its transaction is rolled back and
\* the database holds the committed rows
rollback(committed, tx) == committed

\* get_user_reminders up to its first write (lines 648-670): the medications
\* are walked until one has a schedule with a pointer
RECURSIVE first_due(_, _)
first_due(D, meds) ==
    IF meds = <<>> THEN IdleSess
    ELSE LET med == Head(meds)
             schedule == latest_schedule(D, med)
             next_rem == IF schedule = 0 THEN None ELSE D.schedules[schedule].next_reminder
         IN  IF schedule = 0 \/ next_rem = None
             THEN first_due(D, Tail(meds))
             ELSE [stage |-> "read", med |-> med, schedule |-> schedule,
                   next_rem |-> next_rem, rest |-> Tail(meds)]

\* GET /reminders/{user_id} on connection c, lines 648-670; with no pointer to
\* serve the request is over, its commit has nothing to write
ConsumeRead(c, user_id) ==
    /\ sess[c].stage = "idle"
    /\ LET f == first_due(reader_view(db, upd), MedicationsOf(reader_view(db, upd), user_id))
       IN  IF f.stage = "idle"
           THEN /\ resp' = [BaseResp EXCEPT !.op = "get_user_reminders", !.code = 200]
                /\ UNCHANGED sess
           ELSE /\ sess' = [sess EXCEPT ![c] = f]
                /\ UNCHANGED resp
    /\ UNCHANGED <<db, now, delivered, req, upd, rd>>

\* lines 672-696 on connection c: the writes for the schedule read earlier, the
\* rest of the loop, and the commit.  The UPDATE of a schedule row that is gone
\* matches no row: the flush raises and the request ends in a 500.
ConsumeWrite(c) ==
    /\ sess[c].stage = "read"
    /\ ~WriteLocked
    /\ IF sess[c].schedule \notin DOMAIN db.schedules
       THEN /\ resp' = [BaseResp EXCEPT !.op = "get_user_reminders", !.code = 500]
            /\ UNCHANGED <<db, delivered>>
       ELSE LET D1 == consume_next(db, sess[c].schedule, sess[c].next_rem)
                r == reminders_loop(D1, sess[c].rest,
                                    <<[trigger_time |-> sess[c].next_rem, med |-> sess[c].med]>>,
                                    <<<<sess[c].schedule, sess[c].next_rem>>>>)
            IN  /\ db' = r.db
                /\ resp' = [BaseResp EXCEPT !.op = "get_user_reminders", !.code = 200,
                                            !.out = r.out]
                /\ delivered' = Log(delivered, r.served)
    /\ sess' = [sess EXCEPT ![c] = IdleSess]
    /\ UNCHANGED <<now, req, upd, rd>>

\* the first write of connection c finds the database locked by the update
\* for longer than the busy timeout: the request ends in a 500
ConsumeTimeout(c) ==
    /\ sess[c].stage = "read"
    /\ WriteLocked
    /\ resp' = [BaseResp EXCEPT !.op = "get_user_reminders", !.code = 500]
    /\ sess' = [sess EXCEPT ![c] = IdleSess]
    /\ UNCHANGED <<db, now, delivered, req, upd, rd>>

\* a GET /prescriptions that is still running when the update ends has not
\* run between the start and the commit of the update
UpdateOver == rd' = [rd EXCEPT !.inside = FALSE]

\* PUT /prescriptions/{med_id}, validation and lines 503-514: the reads
UpdateLoad(med_id, payload) ==
    /\ upd.stage = "idle"
    /\ db.sqlite_sequence.schedules < MaxScheds
    /\ IF \/ ~PrescriptionUpdateValid(payload, Today)
          \/ med_id \notin DOMAIN db.medications
       THEN /\ resp' = update_prescription(db, med_id, payload, now, now).resp
            /\ UNCHANGED upd
       ELSE /\ upd' = [IdleUpd EXCEPT !.stage = "loaded", !.med_id = med_id,
                                      !.payload = payload, !.before = db]
            /\ UNCHANGED resp
    /\ UNCHANGED <<db, now, delivered, req, sess, rd>>

\* lines 516-533: the flushes of the medication and of the DELETE open the
\* transaction (a prescribed medication always has a schedule)
UpdateDelete ==
    /\ upd.stage = "loaded"
    /\ upd' = [upd EXCEPT !.stage = "deleted",
                          !.tx = update_delete_existing(db, upd.med_id, upd.payload)]
    /\ UNCHANGED <<db, now, resp, delivered, req, sess, rd>>

\* lines 535-592: the dates (a 400 rolls the transaction back), the new
\* schedule and its reminders, flushed
UpdateInsert ==
    /\ upd.stage = "deleted"
    /\ LET dates == update_dates(upd.before, upd.med_id, upd.payload)
       IN  IF dates = None
           THEN /\ upd' = IdleUpd
                /\ db' = rollback(db, upd.tx)
                /\ resp' = [BaseResp EXCEPT !.op = "update_prescription", !.code = 400,
                                            !.med_id = upd.med_id]
                /\ UpdateOver
           ELSE /\ upd' = [upd EXCEPT !.stage = "inserted",
                                      !.tx = update_insert_new(upd.tx, upd.med_id,
                                                               upd.payload, dates, now)]
                /\ UNCHANGED <<db, resp, rd>>
    /\ UNCHANGED <<now, delivered, req, sess>>

\* lines 594-612: the pointer and the commit
UpdateCommit ==
    /\ upd.stage = "inserted"
    /\ LET D3 == update_set_pointer(upd.tx, now)
           schedule_id == D3.sqlite_sequence.schedules
       IN  /\ db' = D3
           /\ resp' = [BaseResp EXCEPT !.op = "update_prescription", !.code = 200,
                                       !.med_id = upd.med_id, !.schedule_id = schedule_id,
                                       !.next_reminder = D3.schedules[schedule_id].next_reminder,
                                       !.created_reminder_count =
                                           Len(RemindersOf(D3, schedule_id))]
           /\ delivered' = Prune(delivered, D3)
    /\ upd' = IdleUpd
    /\ UpdateOver
    /\ UNCHANGED <<now, req, sess>>

\* GET /prescriptions/{user_id}, lines 321-325: the user and the medications
ReadBegin(user_id) ==
    /\ rd.stage = "idle"
    /\ IF user_id \notin DOMAIN reader_view(db, upd).users
       THEN /\ resp' = [BaseResp EXCEPT !.op = "list_prescriptions", !.code = 404]
            /\ UNCHANGED rd
       ELSE /\ rd' = [IdleRd EXCEPT !.stage = "schedule",
                                    !.meds = MedicationsOf(reader_view(db, upd), user_id),
                                    !.inside = (upd.stage # "idle")]
            /\ UNCHANGED resp
    /\ UNCHANGED <<db, now, delivered, req, sess, upd>>

\* lines 328-331: the latest schedule of the next medication; with no
\* medication left the response goes out (line 357)
ReadSchedule ==
    /\ rd.stage = "schedule"
    /\ IF rd.meds = <<>>
       THEN /\ rd' = [rd EXCEPT !.stage = "idle", !.during = rd.inside,
                                !.before = IF rd.inside THEN upd.before ELSE EmptyDb]
            /\ resp' = [BaseResp EXCEPT !.op = "list_prescriptions", !.code = 200,
                                        !.out = rd.out]
       ELSE LET D == reader_view(db, upd)
                schedule == latest_schedule(D, Head(rd.meds))
            IN  /\ rd' = [rd EXCEPT !.stage = "reminders", !.schedule = schedule,
                             !.next_reminder = IF schedule = 0 THEN None
                                               ELSE D.schedules[schedule].next_reminder]
                /\ UNCHANGED resp
    /\ UNCHANGED <<db, now, delivered, req, sess, upd>>

\* lines 333-355: the reminders of that schedule and the entry of the response
ReadReminders ==
    /\ rd.stage = "reminders"
    /\ LET reminders == IF rd.schedule = 0 THEN <<>>
                        ELSE RemindersOf(reader_view(db, upd), rd.schedule)
           entry == [med |-> Head(rd.meds), schedule |-> rd.schedule,
                     next_reminder |-> rd.next_reminder,
                     reminders |-> {reminders[i].reminder_time : i \in DOMAIN reminders},
                     reminder_count |-> Len(reminders)]
       IN  rd' = [rd EXCEPT !.stage = "schedule", !.meds = Tail(rd.meds),
                            !.out = Append(rd.out, entry)]
    /\ UNCHANGED <<db, now, resp, delivered, req, sess, upd>>

\* bodies tried while requests overlap: a schedule of one or two days with
\* one or two times a day from 08:00 ...
ConcCreatePayloads ==
    [user_id : UserIds, frequency : Freqs, start_date : {<<SetMin(Dates)>>},
     end_date : {None, <<SetMax(Dates)>>}, start_time : {DEFAULT_START_TIME}]

\* ... replaced as it is, replaced by two times a day from 20:00:00, replaced
\* by two times a day with an end_date before the start_date (400), or with a
\* frequency that is rejected (422)
ConcUpdatePayloads ==
    {p \in UpdatePayloads :
        \/ p.frequency = None /\ p.start_date = None /\ p.end_date = None
                              /\ p.start_time = None
        \/ p.frequency = <<2>> /\ p.start_date = None /\ p.end_date = None
                               /\ p.start_time = <<20, 0, 0>>
        \/ p.frequency = <<2>> /\ p.start_date = <<SetMax(Dates)>>
                               /\ p.end_date = <<SetMin(Dates)>> /\ p.start_time = None
        \/ p.frequency = <<MAX_TIMES_PER_DAY + 1>>}

ConcTick == Tick

ConcCreateUser == ~WriteLocked /\ CreateUser

ConcCreatePrescription ==
    /\ ~WriteLocked
    /\ db.sqlite_sequence.medications = 0
    /\ \E payload \in ConcCreatePayloads : CreatePrescriptionReq(payload)
    /\ UNCHANGED <<req, sess, upd, rd>>

\* DELETE /prescriptions/{med_id}: its only write is flushed by the commit
ConcDeletePrescription == ~WriteLocked /\ DeletePrescription

(***************************************************************************)
(* Two connections run GET /reminders while the medication can be deleted. *)
(***************************************************************************)
RaceConsumeRead == \E c \in Connections : ConsumeRead(c, 1)

RaceConsumeWrite == \E c \in Connections : ConsumeWrite(c)

NextRace ==
    \/ ConcTick
    \/ ConcCreateUser
    \/ ConcCreatePrescription
    \/ ConcDeletePrescription
    \/ RaceConsumeRead
    \/ RaceConsumeWrite

SpecRace == Init /\ [][NextRace]_vars

(***************************************************************************)
(* One connection runs PUT /prescriptions, one GET /prescriptions and one  *)
(* GET /reminders.                                                         *)
(***************************************************************************)
UpdConsumeRead == ConsumeRead(1, 1)

UpdConsumeWrite == ConsumeWrite(1)

UpdConsumeTimeout == ConsumeTimeout(1)

UpdUpdateLoad == \E med_id \in {1, 3}, payload \in ConcUpdatePayloads : UpdateLoad(med_id, payload)

UpdRead == \E user_id \in UserIds \cup {2} : ReadBegin(user_id)

NextUpd ==
    \/ ConcTick
    \/ ConcCreateUser
    \/ ConcCreatePrescription
    \/ UpdConsumeRead
    \/ UpdConsumeWrite
    \/ UpdConsumeTimeout
    \/ UpdUpdateLoad
    \/ UpdateDelete
    \/ UpdateInsert
    \/ UpdateCommit
    \/ UpdRead
    \/ ReadSchedule
    \/ ReadReminders

SpecUpd == Init /\ [][NextUpd]_vars

(***************************************************************************)
(* C6  Concurrent consumes                                                 *)
(***************************************************************************)
\* C6: two get_user_reminders calls for the same user never both return the
\* same next_reminder of a schedule: no occurrence is delivered twice.
C6_NoDoubleDelivery ==
    \A x \in delivered : x[3] = 1

OutSeconds(i) == resp.out[i][1] * 3600 + resp.out[i][2] * 60 + resp.out[i][3]

\* from the i-th generated time to the next one, the last going back to the
\* first, modulo one day
CyclicDiff(i) ==
    (OutSeconds((i % Len(resp.out)) + 1) - OutSeconds(i)) % DaySeconds

Generated ==
    /\ resp.op = "generate_daily_times"
    /\ req.frequency \in 1..MAX_TIMES_PER_DAY

\* C11 as claimed: every cyclic difference is exactly floor(86400 / F) seconds.
C11_Original ==
    Generated =>
        \A i \in DOMAIN resp.out :
            CyclicDiff(i) = (DaySeconds \div req.frequency) % DaySeconds

\* C11 (amended): every cyclic difference is floor(86400 / F) or
\* floor(86400 / F) + 1 seconds (modulo one day); exactly 86400 mod F of them
\* are the larger one, so that all are floor(86400 / F) exactly when F divides
\* 86400, and the k-th value is A + floor(k * 86400 / F) modulo one day.
C11_CyclicDifferences ==
    Generated =>
        LET F == req.frequency
            q == DaySeconds \div F
        IN  /\ \A i \in DOMAIN resp.out :
                  CyclicDiff(i) \in {q % DaySeconds, (q + 1) % DaySeconds}
            /\ F >= 2 =>
                  Cardinality({i \in DOMAIN resp.out : CyclicDiff(i) = q + 1})
                      = DaySeconds % F
            /\ \A i \in DOMAIN resp.out :
                  OutSeconds(i) = (AnchorSeconds(req.start_time)
                                     + ((i - 1) * DaySeconds) \div F) % DaySeconds

\* seven times a day: the differences are 12342 and 12343 seconds
C11_Witness ==
    /\ Generated
    /\ req.frequency = 7
    /\ \E i, j \in DOMAIN resp.out :
          /\ CyclicDiff(i) = DaySeconds \div 7
          /\ CyclicDiff(j) = DaySeconds \div 7 + 1

(***************************************************************************)
(* C12  The occurrence set of a schedule                                   *)
(***************************************************************************)
\* start_time strings the requests of the sequential behaviour carry or default to
StartTimesUsed == Anchors \cup {DEFAULT_START_TIME, <<20, 0, 0>>}

\* the dates of the stored schedule s, an absent end_date being the start_date
StoredStart(D, s) == date_fromisoformat(D.schedules[s].start_date)

StoredEnd(D, s) ==
    IF D.schedules[s].end_date = None THEN StoredStart(D, s)
    ELSE date_fromisoformat(D.schedules[s].end_date)

\* {each date in [start, end]} x {each time generate_daily_times(F, A) yields}
Product(start, end, F, A) ==
    {datetime_combine(d, t) : d \in start..end, t \in Range(generate_daily_times(F, A))}

C12Inv ==
    \A s \in DOMAIN db.schedules :
        /\ Cardinality(AllTimes(db, s)) = Cardinality(RowsOf(db, s))
        /\ \E A \in StartTimesUsed :
              AllTimes(db, s) =
                  Product(StoredStart(db, s), StoredEnd(db, s),
                          db.medications[db.schedules[s].medication_id].frequency, A)

\* the rows of a schedule that exists before and after a step carry the same
\* timestamps in the same order
C12Step ==
    \A s \in DOMAIN db.schedules \cap DOMAIN db'.schedules :
        [i \in DOMAIN RemindersOf(db, s) |-> RemindersOf(db, s)[i].reminder_time]
            = [i \in DOMAIN RemindersOf(db', s) |-> RemindersOf(db', s)[i].reminder_time]

\* C12: in every reachable state the timestamps stored for a schedule are
\* exactly {each date in [start, end]} x {each generated time of day} for the
\* dates, frequency and start time it was created with, no two occurrences of
\* a schedule share a timestamp, and no step (a consume in particular) adds
\* or removes an occurrence of a schedule that stays.
C12_OccurrenceSet == []C12Inv /\ [][C12Step]_vars

\* a schedule of two dates and two times a day, one occurrence delivered
C12_Witness ==
    /\ resp.op = "get_user_reminders"
    /\ \E s \in DOMAIN db.schedules :
          /\ StoredStart(db, s) < StoredEnd(db, s)
          /\ Cardinality(RowsOf(db, s)) = 4
          /\ NumDelivered(db, s) = 1

(***************************************************************************)
(* C13  End date not before start date                                     *)
(***************************************************************************)
\* C13: every stored schedule has end date >= start date (an absent end date
\* counting as the start date): a create or update whose end date is before
\* its start date is rejected and stores no schedule.
C13_EndNotBeforeStart ==
    \A s \in DOMAIN db.schedules : StoredStart(db, s) <= StoredEnd(db, s)

(***************************************************************************)
(* C14  A failed update changes nothing                                    *)
(***************************************************************************)
\* the step that answers a PUT /prescriptions with 400, after the medication
\* fields and the DELETE of the old schedule have been flushed
UpdateRejectedStep ==
    /\ upd.stage = "deleted"
    /\ resp'.op = "update_prescription"
    /\ resp'.code = 400

\* C14: an update_prescription that fails with 400 (end date before start
\* date) leaves the database as it was: the medication's fields, its old
\* schedule, that schedule's occurrences with their delivery states and its
\* next_reminder are those committed before the 400 (delivery states and
\* pointer as the GET /reminders committed meanwhile left them), although the
\* transaction had already changed the medication and deleted the schedule.
C14_FailedUpdateChangesNothing ==
    [][UpdateRejectedStep =>
          LET m == upd.med_id
          IN  /\ db' = db
              /\ db'.medications[m] = upd.before.medications[m]
              /\ SchedulesOf(db', m) = SchedulesOf(upd.before, m)
              /\ \A s \in SchedulesOf(db', m) :
                    /\ RowsOf(db', s) # {} => RowsOf(upd.tx, s) = {}
                    /\ AllTimes(db', s) = AllTimes(upd.before, s)
                    /\ db'.schedules[s].start_date = upd.before.schedules[s].start_date
                    /\ db'.schedules[s].end_date = upd.before.schedules[s].end_date]_vars

\* a 400 on a medication taken once a day (the rejected body asked for twice)
\* whose schedule has a delivered occurrence and a pointer
C14_Witness ==
    /\ resp.op = "update_prescription"
    /\ resp.code = 400
    /\ upd.stage = "idle"
    /\ db.medications[resp.med_id].frequency = 1
    /\ \E s \in SchedulesOf(db, resp.med_id) :
          /\ NumDelivered(db, s) >= 1
          /\ Pointer(db, s) # None

(***************************************************************************)
(* C15  Delivery is one-way                                                *)
(***************************************************************************)
\* timestamps of the occurrences of schedule s that are no longer pending
DeliveredTimes(D, s) == AllTimes(D, s) \ PendingTimes(D, s)

\* C15: an occurrence that has left the pending state is never pending again
\* for as long as its schedule exists, whatever the operation.
C15_DeliveryOneWay ==
    [][\A s \in DOMAIN db.schedules \cap DOMAIN db'.schedules :
          DeliveredTimes(db, s) \subseteq DeliveredTimes(db', s)]_vars

\* a prescription has been created while another schedule had two delivered
\* occurrences and one still pending
C15_Witness ==
    /\ resp.op = "create_prescription"
    /\ resp.code = 201
    /\ \E s \in DOMAIN db.schedules :
          /\ s # resp.schedule_id
          /\ Cardinality(DeliveredTimes(db, s)) = 2
          /\ NumPending(db, s) >= 1

(***************************************************************************)
(* C16  Supersession replaces in whole                                     *)
(***************************************************************************)
\* the database with every occurrence pending again
Reopened(D) ==
    [D EXCEPT !.reminders = [i \in DOMAIN D.reminders |->
                                [D.reminders[i] EXCEPT !.status = "pending"]]]

UpdatedStep ==
    /\ NewScheduleStep
    /\ resp'.op = "update_prescription"
    /\ req'.op = "update_prescription"

AskedStartTime ==
    IF req'.payload.start_time # None THEN req'.payload.start_time
    ELSE DEFAULT_START_TIME

\* C16: after a successful update_prescription no occurrence of the previous
\* schedule remains, every occurrence of the medication belongs to the new
\* schedule and is pending, and the new occurrences are those of the new
\* inputs, the same whichever old occurrences had been delivered.
C16_SupersededInWhole ==
    [][UpdatedStep =>
          LET m == req'.med_id
              new == resp'.schedule_id
          IN  /\ new \notin DOMAIN db.schedules
              /\ SchedulesOf(db', m) = {new}
              /\ \A s \in SchedulesOf(db, m) : RowsOf(db', s) = {}
              /\ PendingRows(db', new) = RowsOf(db', new)
              /\ AllTimes(db', new) =
                    Product(AskedStart, AskedEnd, AskedFrequency, AskedStartTime)
              /\ Cardinality(RowsOf(db', new)) = Cardinality(AllTimes(db', new))
              /\ RemindersOf(db', new) =
                    RemindersOf(update_prescription(Reopened(db), m, req'.payload,
                                                    now, now).db, new)]_vars

\* schedule 2 has replaced schedule 1 after reminders were fetched: four
\* occurrences, all of them pending, none of schedule 1
C16_Witness ==
    /\ req # None
    /\ req.op = "update_prescription"
    /\ resp.op = "update_prescription"
    /\ resp.code = 200
    /\ resp.schedule_id = 2
    /\ DOMAIN db.schedules = {2}
    /\ Len(db.reminders) = 4
    /\ NumPending(db, 2) = 4
    /\ now > SetMin(Clock)

(***************************************************************************)
(* C17  One schedule per medication                                        *)
(***************************************************************************)
\* C17: in every reachable state each medication has exactly one schedule,
\* so no update_prescription can reach the 'start_date is required when no
\* existing schedule' branch.
C17_OneSchedulePerMedication ==
    \A m \in DOMAIN db.medications :
        /\ Cardinality(SchedulesOf(db, m)) = 1
        /\ \A payload \in UpdatePayloads : ~start_date_required(db, m, payload)

\* an update has replaced schedule 1 of the medication by schedule 2, the
\* only one it has
C17_Witness ==
    /\ resp.op = "update_prescription"
    /\ resp.code = 200
    /\ resp.schedule_id = 2
    /\ resp.next_reminder # None
    /\ SchedulesOf(db, resp.med_id) = {2}

(***************************************************************************)
(* GET /reminders on a database as it may be found: one medication, one    *)
(* schedule, any subset of three occurrences in any delivery state, and a  *)
(* next_reminder that is NULL, one of the three timestamps or a timestamp  *)
(* no occurrence has.  The requests above never store a pointer without   *)
(* its occurrence; rows edited or removed outside them can.               *)
(***************************************************************************)
StoredTimes == <<(<<0, 8, 0, 0>>), (<<0, 20, 0, 0>>), (<<1, 8, 0, 0>>)>>

StoredPointers == {None, <<0, 12, 0, 0>>} \cup Range(StoredTimes)

\* the reminders table for a choice of absent / 'pending' / 'scheduled' per timestamp
StoredRows(choice) ==
    LET kept == SelectSeq(<<1, 2, 3>>, LAMBDA i : choice[i] # "absent")
    IN  [k \in DOMAIN kept |->
            [schedule_id |-> 1, reminder_time |-> StoredTimes[kept[k]],
             status |-> choice[kept[k]]]]

StoredDbs ==
    {[users |-> Insert(EmptyTable, 1, [username |-> UserBodies[1].username,
                                        email |-> UserBodies[1].email,
                                        parent_user_id |-> None]),
      medications |-> Insert(EmptyTable, 1, [user_id |-> 1, frequency |-> 2]),
      schedules |-> Insert(EmptyTable, 1,
                           [medication_id |-> 1, created_at |-> <<0, 8, 0, 0>>,
                            start_date |-> <<0>>, end_date |-> <<1>>,
                            next_reminder |-> p]),
      reminders |-> StoredRows(choice),
      sqlite_sequence |-> [users |-> 1, medications |-> 1, schedules |-> 1]] :
        p \in StoredPointers,
        choice \in [1..3 -> {"absent", "pending", "scheduled"}]}

InitStored ==
    /\ db \in StoredDbs
    /\ now = SetMin(Clock)
    /\ resp = BaseResp
    /\ delivered = {}
    /\ req = None
    /\ NoneInProgress

StoredGetUserReminders == GetUserRemindersReq(1) /\ UNCHANGED <<req, sess, upd, rd>>

NextStored == StoredGetUserReminders

SpecStored == InitStored /\ [][NextStored]_vars

(***************************************************************************)
(* C18  A pointer whose occurrence is missing                              *)
(***************************************************************************)
\* schedule s has a next_reminder that none of its occurrences carries
PointerUnmatched(D, s) ==
    /\ Pointer(D, s) # None
    /\ \A i \in RowsOf(D, s) : D.reminders[i].reminder_time # Pointer(D, s)

\* C18: when no occurrence of the schedule has the timestamp of next_reminder,
\* get_user_reminders still answers 200: it marks no occurrence and sets
\* next_reminder to the minimum timestamp still pending, or to None.
C18_MissingOccurrenceRecovered ==
    [][\A u \in UserIds : ConsumeStep(u) =>
          \A s \in Consumable(u) : PointerUnmatched(db, s) =>
              /\ resp'.code = 200
              /\ db'.reminders = db.reminders
              /\ Pointer(db', s) = EarliestPending(db', s)]_vars

\* the pointer was 12:00:00 of day 0, which no occurrence has; the call has
\* returned it and moved the pointer to a pending occurrence, two stay pending
C18_Witness ==
    /\ resp.op = "get_user_reminders"
    /\ resp.code = 200
    /\ resp.out # <<>>
    /\ resp.out[1].trigger_time = <<0, 12, 0, 0>>
    /\ 1 \in DOMAIN db.schedules
    /\ NumPending(db, 1) = 2
    /\ Pointer(db, 1) = EarliestPending(db, 1)

(***************************************************************************)
(* C19  A schedule without occurrences                                     *)
(***************************************************************************)
\* C19: a schedule with zero occurrences has next_reminder absent in every
\* reachable state, at creation and after any number of get_user_reminders
\* calls, and the response that created it reports it absent.
C19_NoOccurrencesNoPointer ==
    /\ \A s \in DOMAIN db.schedules : RowsOf(db, s) = {} => Pointer(db, s) = None
    /\ (resp.code \in {200, 201} /\ resp.schedule_id # 0
            /\ resp.created_reminder_count = 0) => resp.next_reminder = None

\* reminders were fetched, and none returned, while the user's schedule has
\* no occurrence (its end_date is before its start_date)
C19_Witness ==
    /\ resp.op = "get_user_reminders"
    /\ resp.out = <<>>
    /\ \E s \in DOMAIN db.schedules :
          /\ RowsOf(db, s) = {}
          /\ StoredEnd(db, s) < StoredStart(db, s)
          /\ Pointer(db, s) = None

(***************************************************************************)
(* C20  DELETE /prescriptions/{med_id}: effect and frame                   *)
(***************************************************************************)
\* a step that is a DELETE /prescriptions/{med_id} answered 204
DeletedStep ==
    /\ resp'.op = "delete_prescription"
    /\ resp'.code = 204
    /\ db' # db

\* medication k with its schedules, their occurrences and pointers is the
\* same in D2 as in D1
SameMedication(D1, D2, k) ==
    /\ k \in DOMAIN D2.medications
    /\ D2.medications[k] = D1.medications[k]
    /\ SchedulesOf(D2, k) = SchedulesOf(D1, k)
    /\ \A s \in SchedulesOf(D1, k) :
          /\ D2.schedules[s] = D1.schedules[s]
          /\ RemindersOf(D2, s) = RemindersOf(D1, s)

\* C20: delete_prescription on an existing medication removes the medication,
\* all its schedules and all their occurrences, and leaves the users and every
\* other medication with its schedules, occurrences and pointers unchanged.
C20_DeleteCascadesAndFrames ==
    [][DeletedStep =>
        LET m == resp'.med_id
        IN  /\ m \in DOMAIN db.medications
            /\ m \notin DOMAIN db'.medications
            /\ \A s \in DOMAIN db'.schedules : db'.schedules[s].medication_id # m
            /\ \A i \in DOMAIN db'.reminders :
                  db'.reminders[i].schedule_id \notin SchedulesOf(db, m)
            /\ db'.users = db.users
            /\ \A k \in DOMAIN db.medications \ {m} : SameMedication(db, db', k)]_vars

\* a medication was deleted while another one, with pending occurrences and a
\* pointer, stays
C20_Witness ==
    /\ resp.op = "delete_prescription"
    /\ resp.code = 204
    /\ resp.med_id \notin DOMAIN db.medications
    /\ \E k \in DOMAIN db.medications :
          \E s \in SchedulesOf(db, k) :
             /\ Len(RemindersOf(db, s)) > 0
             /\ Pointer(db, s) # None

(***************************************************************************)
(* Two users: the sequential requests with users 1 and 2 (user 3 never     *)
(* exists), one medication each at most.                                   *)
(***************************************************************************)
TwoUsers == {1, 2}

\* POST /prescriptions bodies of the two users and of user 3
UsersCreatePayloads ==
    [user_id : TwoUsers \cup {3}, frequency : Freqs, start_date : {<<SetMin(Dates)>>},
     end_date : {None, <<SetMax(Dates)>>}, start_time : {DEFAULT_START_TIME}]

UsersTick == Tick

UsersCreateUser ==
    /\ db.sqlite_sequence.users + 1 \in TwoUsers
    /\ Answer(create_user(db, UserBodies[db.sqlite_sequence.users + 1]))
    /\ UNCHANGED <<req, sess, upd, rd>>

UsersDeleteUser ==
    /\ \E user_id \in TwoUsers \cup {3} : DeleteUserReq(user_id)
    /\ UNCHANGED <<req, sess, upd, rd>>

UsersCreatePrescription ==
    /\ \E payload \in UsersCreatePayloads : CreatePrescriptionReq(payload)
    /\ UNCHANGED <<req, sess, upd, rd>>

UsersUpdatePrescription ==
    /\ \E med_id \in MedIds, payload \in ConcUpdatePayloads :
          UpdatePrescriptionReq(med_id, payload)
    /\ UNCHANGED <<req, sess, upd, rd>>

UsersDeletePrescription == DeletePrescription

UsersGetUserReminders ==
    /\ \E user_id \in TwoUsers \cup {3} : GetUserRemindersReq(user_id)
    /\ UNCHANGED <<req, sess, upd, rd>>

NextUsers ==
    \/ UsersTick
    \/ UsersCreateUser
    \/ UsersDeleteUser
    \/ UsersCreatePrescription
    \/ UsersUpdatePrescription
    \/ UsersDeletePrescription
    \/ UsersGetUserReminders

SpecUsers == Init /\ [][NextUsers]_vars

(***************************************************************************)
(* C21  Ownership                                                          *)
(***************************************************************************)
\* every occurrence has its schedule, every schedule its medication, every
\* medication its user
Owned(D) ==
    /\ \A i \in DOMAIN D.reminders : D.reminders[i].schedule_id \in DOMAIN D.schedules
    /\ \A s \in DOMAIN D.schedules : D.schedules[s].medication_id \in DOMAIN D.medications
    /\ \A m \in DOMAIN D.medications : D.medications[m].user_id \in DOMAIN D.users

\* a step that is a DELETE /users/{user_id} answered 204
UserDeletedStep ==
    /\ resp'.op = "delete_user"
    /\ resp'.code = 204
    /\ db' # db

\* C21: after any sequence of create, update, consume, delete_prescription and
\* delete_user operations every occurrence belongs to an existing schedule,
\* every schedule to an existing medication and every medication to an
\* existing user; delete_user leaves no medication, schedule or occurrence of
\* the deleted user.
C21_OwnershipCascade ==
    /\ []Owned(db)
    /\ [][UserDeletedStep =>
            \A u \in DOMAIN db.users \ DOMAIN db'.users :
               /\ \A m \in DOMAIN db'.medications : db'.medications[m].user_id # u
               /\ \A s \in DOMAIN db.schedules :
                     OwnerOf(db, s) = u =>
                        /\ s \notin DOMAIN db'.schedules
                        /\ RemindersOf(db', s) = <<>>]_vars

\* a user was deleted after both users had a medication; the other user's
\* medication, schedule and occurrences are still there
C21_Witness ==
    /\ resp.op = "delete_user"
    /\ resp.code = 204
    /\ Cardinality(DOMAIN db.users) = 1
    /\ db.sqlite_sequence.medications = 2
    /\ Cardinality(DOMAIN db.medications) = 1
    /\ \E s \in DOMAIN db.schedules : Len(RemindersOf(db, s)) > 0

(***************************************************************************)
(* Frequencies at and beyond the limits: one medication is prescribed for  *)
(* the last date and updated, the request on record.                       *)
(***************************************************************************)
FreqInputs == {0 - 1, 0, 1, MAX_TIMES_PER_DAY, MAX_TIMES_PER_DAY + 1}

FreqCreatePayloads ==
    [user_id : UserIds, frequency : FreqInputs, start_date : {<<SetMax(Dates)>>},
     end_date : {None}, start_time : {DEFAULT_START_TIME}]

FreqUpdatePayloads ==
    [frequency : Opt(FreqInputs), start_date : {None}, end_date : {None},
     start_time : {None}]

FreqTick == Tick

FreqCreateUser == CreateUser

FreqCreatePrescription ==
    \E payload \in FreqCreatePayloads :
        /\ db.sqlite_sequence.medications = 0
        /\ CreatePrescriptionReq(payload)
        /\ req' = [op |-> "create_prescription", med_id |-> 0, payload |-> payload]
        /\ UNCHANGED <<sess, upd, rd>>

FreqUpdatePrescription ==
    \E payload \in FreqUpdatePayloads :
        /\ UpdatePrescriptionReq(1, payload)
        /\ req' = [op |-> "update_prescription", med_id |-> 1, payload |-> payload]
        /\ UNCHANGED <<sess, upd, rd>>

FreqGetUserReminders == RecGetUserReminders

NextFreq ==
    \/ FreqTick
    \/ FreqCreateUser
    \/ FreqCreatePrescription
    \/ FreqUpdatePrescription
    \/ FreqGetUserReminders

SpecFreq == Init /\ [][NextFreq]_vars

(***************************************************************************)
(* C22  Frequency limits                                                   *)
(***************************************************************************)
\* the request on record is the one resp answers
Answered == req # None /\ resp.op = req.op

\* the frequency of the request on record is absent or within the limits
FrequencyInRange ==
    IF req.op = "create_prescription"
    THEN 1 <= req.payload.frequency /\ req.payload.frequency <= MAX_TIMES_PER_DAY
    ELSE req.payload.frequency # None =>
            /\ 1 <= req.payload.frequency[1]
            /\ req.payload.frequency[1] <= MAX_TIMES_PER_DAY

\* C22: a create or update request is rejected as a validation failure (422)
\* for its frequency exactly when the frequency is not within
\* 1..MAX_TIMES_PER_DAY, and no stored medication has a frequency outside
\* that range.
C22_FrequencyAccepted ==
    /\ Answered => (resp.code # 422 <=> FrequencyInRange)
    /\ \A m \in DOMAIN db.medications :
          /\ 1 <= db.medications[m].frequency
          /\ db.medications[m].frequency <= MAX_TIMES_PER_DAY

\* a prescription with frequency MAX_TIMES_PER_DAY was created
C22_Witness ==
    /\ Answered
    /\ req.op = "create_prescription"
    /\ req.payload.frequency = MAX_TIMES_PER_DAY
    /\ resp.code = 201
    /\ resp.created_reminder_count = MAX_TIMES_PER_DAY
    /\ db.medications[resp.med_id].frequency = MAX_TIMES_PER_DAY

(***************************************************************************)
(* The request bodies as pydantic validates them, before the handler runs. *)
(* A dosage text is its sequence of tokens: <<n>> for a numeric literal of *)
(* value n, None for any other word.  A date text has one field, the day   *)
(* number; a time text has the fields HH, MM and optionally SS.            *)
(***************************************************************************)
DOSAGE_MIN == 0
DOSAGE_MAX == 1000

\* check_date_format: date.fromisoformat(v) does not raise
check_date_format(v) == v = None \/ (Len(v) = 1 /\ v[1] >= 0)

\* check_time_format: time.fromisoformat(v) does not raise
check_time_format(v) ==
    /\ Len(v) \in {2, 3}
    /\ v[1] \in 0..23
    /\ v[2] \in 0..59
    /\ Len(v) = 3 => v[3] \in 0..59

\* re.search(r"[-+]?[0-9]*\.?[0-9]+", v): the first numeric literal, None if
\* there is none
RECURSIVE dosage_search(_)
dosage_search(v) ==
    IF v = <<>> THEN None
    ELSE IF Head(v) # None THEN Head(v)
    ELSE dosage_search(Tail(v))

\* variant: any dosage with a number in it passes
check_dosage_range_any_number(v) == dosage_search(v) # None

\* check_dosage_range
check_dosage_range(v) ==
    /\ dosage_search(v) # None
    /\ ~(dosage_search(v)[1] < DOSAGE_MIN \/ dosage_search(v)[1] > DOSAGE_MAX)

\* the validators of PrescriptionCreate that look at the text of the fields
PrescriptionCreateShape(body) ==
    /\ check_date_format(body.start_date)
    /\ check_date_format(body.end_date)
    /\ check_time_format(body.start_time)
    /\ check_dosage_range(body.dosage)

\* the validators of PrescriptionUpdate that look at the text of the fields
PrescriptionUpdateShape(body) ==
    /\ check_date_format(body.start_date)
    /\ check_date_format(body.end_date)
    /\ body.start_time # None => check_time_format(body.start_time)
    /\ body.dosage # None => check_dosage_range(body.dosage)

\* POST /prescriptions: the body is validated, then the handler runs
post_prescriptions(D, body, t) ==
    IF ~PrescriptionCreateShape(body)
    THEN [db |-> D, resp |-> [BaseResp EXCEPT !.op = "create_prescription", !.code = 422]]
    ELSE create_prescription(D, body, t, t)

\* PUT /prescriptions/{med_id}
put_prescriptions(D, med_id, body, t) ==
    IF ~PrescriptionUpdateShape(body)
    THEN [db |-> D, resp |-> [BaseResp EXCEPT !.op = "update_prescription", !.code = 422]]
    ELSE update_prescription(D, med_id, body, t, t)

\* "5 mg", "about 1000"
GoodDosages == {<< <<5>>, None >>, << None, <<DOSAGE_MAX>> >>}
\* "mg", "1001 mg", "-1 mg"
BadDosages == {<< None >>, << <<DOSAGE_MAX + 1>>, None >>, << <<DOSAGE_MIN - 1>>, None >>}
\* a date text with a stray field, a time text with hour 25
BadDate == <<1, 1>>
BadTime == <<25, 0>>

CreateBody ==
    [user_id |-> 1, dosage |-> << <<5>>, None >>, frequency |-> 2,
     start_date |-> <<SetMax(Dates)>>, end_date |-> None,
     start_time |-> DEFAULT_START_TIME]

\* the body as it is, and with one field (or the user as well) replaced
ShapeCreateBodies ==
    LET one ==
          {CreateBody}
          \cup {[CreateBody EXCEPT !.dosage = d] : d \in GoodDosages \cup BadDosages}
          \cup {[CreateBody EXCEPT !.start_date = BadDate],
                [CreateBody EXCEPT !.end_date = BadDate],
                [CreateBody EXCEPT !.start_time = BadTime],
                [CreateBody EXCEPT !.start_date = <<SetMin(Dates)>>],
                [CreateBody EXCEPT !.frequency = 0],
                [CreateBody EXCEPT !.frequency = MAX_TIMES_PER_DAY + 1]}
    IN  one \cup {[b EXCEPT !.user_id = 2] : b \in one}

UpdateBody ==
    [dosage |-> None, frequency |-> None, start_date |-> None, end_date |-> None,
     start_time |-> None]

ShapeUpdateBodies ==
    {UpdateBody}
    \cup {[UpdateBody EXCEPT !.dosage = d] : d \in GoodDosages \cup BadDosages}
    \cup {[UpdateBody EXCEPT !.start_date = BadDate],
          [UpdateBody EXCEPT !.end_date = BadDate],
          [UpdateBody EXCEPT !.start_time = BadTime],
          [UpdateBody EXCEPT !.start_time = <<20, 0, 0>>],
          [UpdateBody EXCEPT !.start_date = <<SetMin(Dates)>>],
          [UpdateBody EXCEPT !.frequency = <<0>>],
          [UpdateBody EXCEPT !.frequency = <<MAX_TIMES_PER_DAY + 1>>],
          [UpdateBody EXCEPT !.start_date = <<SetMax(Dates)>>,
                             !.end_date = <<SetMin(Dates)>>]}

ShapeTick == Tick

ShapeCreateUser == CreateUser

ShapeCreatePrescription ==
    \E body \in ShapeCreateBodies :
        /\ db.sqlite_sequence.medications = 0
        /\ db.sqlite_sequence.schedules < MaxScheds
        /\ Answer(post_prescriptions(db, body, now))
        /\ req' = [op |-> "create_prescription", med_id |-> 0, payload |-> body]
        /\ UNCHANGED <<sess, upd, rd>>

ShapeUpdatePrescription ==
    \E med_id \in {1, 3}, body \in ShapeUpdateBodies :
        /\ db.sqlite_sequence.schedules < MaxScheds
        /\ Answer(put_prescriptions(db, med_id, body, now))
        /\ req' = [op |-> "update_prescription", med_id |-> med_id, payload |-> body]
        /\ UNCHANGED <<sess, upd, rd>>

ShapeDeletePrescription ==
    \E med_id \in {1, 3} :
        /\ DeletePrescriptionReq(med_id)
        /\ req' = [op |-> "delete_prescription", med_id |-> med_id, payload |-> UpdateBody]
        /\ UNCHANGED <<sess, upd, rd>>

ShapeGetUserReminders == RecGetUserReminders

NextShape ==
    \/ ShapeTick
    \/ ShapeCreateUser
    \/ ShapeCreatePrescription
    \/ ShapeUpdatePrescription
    \/ ShapeDeletePrescription
    \/ ShapeGetUserReminders

SpecShape == Init /\ [][NextShape]_vars

(***************************************************************************)
(* C23  Rejections for input shape and for a missing referent              *)
(***************************************************************************)
\* a step that answers the request on record
ShapeStep ==
    /\ req' # None
    /\ resp'.op = req'.op
    /\ <<db, resp, req>>' # <<db, resp, req>>

\* the request has a malformed date or time, a start date in the past, or a
\* frequency or dosage out of range
BadShape ==
    LET b == req'.payload
    IN  /\ req'.op \in {"create_prescription", "update_prescription"}
        /\ \/ b.dosage \in BadDosages
           \/ b.start_date = BadDate
           \/ b.end_date = BadDate
           \/ b.start_time = BadTime
           \/ b.start_date \in {<<d>> : d \in Dates} /\ b.start_date[1] < Today
           \/ req'.op = "create_prescription"
                 /\ (b.frequency < 1 \/ b.frequency > MAX_TIMES_PER_DAY)
           \/ req'.op = "update_prescription" /\ b.frequency # None
                 /\ (b.frequency[1] < 1 \/ b.frequency[1] > MAX_TIMES_PER_DAY)

\* the request names a user or a medication that does not exist
MissingReferent ==
    IF req'.op = "create_prescription"
    THEN req'.payload.user_id \notin DOMAIN db.users
    ELSE req'.med_id \notin DOMAIN db.medications

\* C23: a request with a malformed date or time, a start date in the past or
\* a frequency or dosage out of range is answered 422; otherwise a request
\* that names an unknown user (create) or an unknown medication (update,
\* delete) is answered 404; either way the stored medications, schedules,
\* occurrences and pointers are unchanged, and neither is answered 400.
C23_RejectedBeforeExpansion ==
    [][ShapeStep =>
        /\ BadShape => (resp'.code = 422 /\ db' = db)
        /\ (~BadShape /\ MissingReferent) => (resp'.code = 404 /\ db' = db)
        /\ resp'.code \in {422, 404} => db' = db
        /\ resp'.code = 400 => (~BadShape /\ ~MissingReferent)]_vars

\* an update with a dosage out of range was rejected while the medication
\* has a schedule with occurrences
C23_Witness ==
    /\ req # None
    /\ req.op = "update_prescription"
    /\ resp.op = "update_prescription"
    /\ resp.code = 422
    /\ req.payload.dosage \in BadDosages
    /\ req.med_id \in DOMAIN db.medications
    /\ \E s \in SchedulesOf(db, req.med_id) :
          Len(RemindersOf(db, s)) > 0 /\ Pointer(db, s) # None

(***************************************************************************)
(* C24  Independence of the schedules                                      *)
(***************************************************************************)
\* the database with schedule s and its occurrences as the only ones
OnlySchedule(D, s) ==
    [D EXCEPT !.schedules = [x \in {s} |-> D.schedules[x]],
              !.reminders = RemindersOf(D, s)]

\* the occurrences of schedule s that differ between D1 and D2
ChangedRows(D1, D2, s) ==
    {j \in DOMAIN RemindersOf(D1, s) : RemindersOf(D2, s)[j] # RemindersOf(D1, s)[j]}

\* C24: a get_user_reminders call for user u leaves users, medications and
\* the set of schedules and occurrences as they are; a schedule of another
\* user keeps its occurrences and pointer; a schedule of u changes in its
\* pointer and in the status of one occurrence at most, and exactly as it would
\* if it were the only schedule stored.
C24_SchedulesIndependent ==
    [][\A u \in TwoUsers \cup {3} :
          ConsumeStep(u) =>
             /\ db'.users = db.users
             /\ db'.medications = db.medications
             /\ DOMAIN db'.schedules = DOMAIN db.schedules
             /\ Len(db'.reminders) = Len(db.reminders)
             /\ \A s \in DOMAIN db.schedules :
                   IF OwnerOf(db, s) # u
                   THEN /\ db'.schedules[s] = db.schedules[s]
                        /\ RemindersOf(db', s) = RemindersOf(db, s)
                   ELSE LET alone == get_user_reminders(OnlySchedule(db, s), u).db
                        IN  /\ [db'.schedules[s] EXCEPT !.next_reminder = None]
                                  = [db.schedules[s] EXCEPT !.next_reminder = None]
                            /\ Len(RemindersOf(db', s)) = Len(RemindersOf(db, s))
                            /\ Cardinality(ChangedRows(db, db', s)) <= 1
                            /\ db'.schedules[s] = alone.schedules[s]
                            /\ RemindersOf(db', s) = RemindersOf(alone, s)]_vars

\* reminders were returned to one user while another user's schedule has a
\* pointer and only pending occurrences, one of them with the returned
\* trigger_time
C24_Witness ==
    /\ resp.op = "get_user_reminders"
    /\ Len(resp.out) = 1
    /\ \E s \in DOMAIN db.schedules :
          /\ db.schedules[s].medication_id # resp.out[1].med
          /\ OwnerOf(db, s) # OwnerOf(db, SetMin(SchedulesOf(db, resp.out[1].med)))
          /\ Pointer(db, s) # None
          /\ \A i \in RowsOf(db, s) : db.reminders[i].status = "pending"
          /\ resp.out[1].trigger_time \in {db.reminders[i].reminder_time : i \in RowsOf(db, s)}

(***************************************************************************)
(* GET /prescriptions/{user_id} as one step.  The users of POST /users     *)
(* have no parent, so owner_id (line 325) is the user's own id.            *)
(***************************************************************************)
\* variant: only the pending reminders are counted
reminder_count_pending(D, schedule) ==
    Len(SelectSeq(RemindersOf(D, schedule), LAMBDA r : r.status = "pending"))

\* lines 334-337
reminder_count(D, schedule) == Len(RemindersOf(D, schedule))

list_prescriptions(D, user_id) ==
    IF user_id \notin DOMAIN D.users
    THEN [db |-> D, resp |-> [BaseResp EXCEPT !.op = "list_prescriptions", !.code = 404]]
    ELSE LET meds == MedicationsOf(D, user_id)
             entry(med) ==
                LET schedule == latest_schedule(D, med)
                IN  [med |-> med,
                     schedule |-> schedule,
                     next_reminder |-> IF schedule = 0 THEN None
                                       ELSE D.schedules[schedule].next_reminder,
                     reminder_count |-> IF schedule = 0 THEN 0
                                        ELSE reminder_count(D, schedule)]
         IN  [db |-> D,
              resp |-> [BaseResp EXCEPT !.op = "list_prescriptions", !.code = 200,
                                        !.out = [j \in DOMAIN meds |-> entry(meds[j])]]]

(***************************************************************************)
(* Sequential behaviour in which req is the log of the answers 201/200 of  *)
(* POST and PUT /prescriptions: <<schedule id, created_reminder_count>>.   *)
(***************************************************************************)
Created(log, r) ==
    IF r.code \in {200, 201}
    THEN Append(log, <<r.schedule_id, r.created_reminder_count>>)
    ELSE log

ListTick == Tick

ListCreateUser == CreateUser

ListCreatePrescription ==
    \E payload \in ConcCreatePayloads :
        /\ CreatePrescriptionReq(payload)
        /\ req' = Created(req, resp')
        /\ UNCHANGED <<sess, upd, rd>>

ListUpdatePrescription ==
    \E med_id \in MedIds, payload \in ConcUpdatePayloads :
        /\ UpdatePrescriptionReq(med_id, payload)
        /\ req' = Created(req, resp')
        /\ UNCHANGED <<sess, upd, rd>>

ListDeletePrescription == DeletePrescription

ListGetUserReminders == GetUserReminders

ListPrescriptions ==
    \E user_id \in UserIds \cup {2} :
        /\ Answer(list_prescriptions(db, user_id))
        /\ UNCHANGED <<req, sess, upd, rd>>

NextList ==
    \/ ListTick
    \/ ListCreateUser
    \/ ListCreatePrescription
    \/ ListUpdatePrescription
    \/ ListDeletePrescription
    \/ ListGetUserReminders
    \/ ListPrescriptions

SpecList == Init /\ [][NextList]_vars

AccountBodies ==
    [username : {"alice", "bob", "al"},
     email : {<<"alice", "example.com">>, <<"bob", "example.com">>, <<"alice">>},
     password : {"sadddd", "pw"}]

AccCreateUser ==
    \E payload \in AccountBodies :
        /\ db.sqlite_sequence.users < MaxUsers
        /\ Answer(create_user(db, payload))
        /\ req' = [op |-> "create_user", parent_id |-> 0, payload |-> payload]
        /\ UNCHANGED <<sess, upd, rd>>

AccCreateSubuser ==
    \E parent_id \in 1..MaxUsers, payload \in AccountBodies :
        /\ db.sqlite_sequence.users < MaxUsers
        /\ Answer(create_subuser(db, parent_id, payload))
        /\ req' = [op |-> "create_subuser", parent_id |-> parent_id, payload |-> payload]
        /\ UNCHANGED <<sess, upd, rd>>

AccDeleteUser ==
    \E user_id \in 1..MaxUsers :
        /\ DeleteUserReq(user_id)
        /\ UNCHANGED <<req, sess, upd, rd>>

NextAccounts ==
    \/ AccCreateUser
    \/ AccCreateSubuser
    \/ AccDeleteUser

SpecAccounts == Init /\ [][NextAccounts]_vars

(***************************************************************************)
(* C26  Usernames and emails are unique                                    *)
(***************************************************************************)
UniqueAccounts(D) ==
    \A u, v \in DOMAIN D.users :
        u # v => /\ D.users[u].username # D.users[v].username
                 /\ D.users[u].email # D.users[v].email

\* a step that answers the create_user or create_subuser request on record
AccountStep ==
    /\ req' # None
    /\ resp'.op = req'.op
    /\ <<db, resp, req>>' # <<db, resp, req>>

\* the username or the email of the request is stored already
Duplicate ==
    \E u \in DOMAIN db.users :
        \/ db.users[u].username = req'.payload.username
        \/ db.users[u].email = req'.payload.email

\* C26 as claimed: no two stored users share a username or an email, and a
\* request (with a valid body) whose username or email already exists is
\* rejected with 409 and stores nothing.
C26_Original ==
    /\ []UniqueAccounts(db)
    /\ [][(AccountStep /\ Duplicate /\ UserCreateValid(req'.payload)) =>
            (resp'.code = 409 /\ db' = db)]_vars

\* C26: no two stored users share a username or an email; a request whose
\* username or email already exists stores nothing and is rejected: with 422
\* when its body is invalid, else with 404 when create_subuser names an unknown
\* parent, else with 409.
C26_UniqueAccounts ==
    /\ []UniqueAccounts(db)
    /\ [][(AccountStep /\ Duplicate) =>
            /\ db' = db
            /\ resp'.code =
                  IF ~UserCreateValid(req'.payload) THEN 422
                  ELSE IF req'.op = "create_subuser"
                          /\ req'.parent_id \notin DOMAIN db.users THEN 404
                  ELSE 409]_vars

\* a sub-user request with a stored email was rejected with 409 while a user
\* and a sub-user are stored
C26_Witness ==
    /\ req # None
    /\ req.op = "create_subuser"
    /\ resp.op = "create_subuser"
    /\ resp.code = 409
    /\ \E u, v \in DOMAIN db.users :
          /\ db.users[u].parent_user_id = None
          /\ db.users[v].parent_user_id = <<u>>
          /\ db.users[v].email = req.payload.email
          /\ db.users[v].username # req.payload.username

(***************************************************************************)
(* GET /pharmacies.  A float is <<n>>, n its value in tenths of a degree,  *)
(* or NaN; a comparison with NaN is false.  key is GOOGLE_PLACES_API_KEY,  *)
(* outcome what the Places API does when it is asked.                      *)
(***************************************************************************)
NaN == <<>>

Degrees(d) == <<10 * d>>

\* a <= b on floats
FloatLe(a, b) == a # NaN /\ b # NaN /\ a[1] <= b[1]

\* variant: the API key is checked before the inputs
search_pharmacies_key_first(latitude, longitude, radius, key, outcome) ==
    LET answer(code, sent) ==
            [resp |-> [BaseResp EXCEPT !.op = "search_pharmacies", !.code = code],
             sent |-> sent]
    IN  IF key = "" THEN answer(500, <<>>)
        ELSE IF ~(FloatLe(Degrees(0 - 90), latitude) /\ FloatLe(latitude, Degrees(90)))
        THEN answer(400, <<>>)
        ELSE IF ~(FloatLe(Degrees(0 - 180), longitude) /\ FloatLe(longitude, Degrees(180)))
        THEN answer(400, <<>>)
        ELSE IF ~(500 <= radius /\ radius <= 50000)
        THEN answer(400, <<>>)
        ELSE IF outcome = "RequestException"
        THEN answer(502, << <<latitude, longitude, radius>> >>)
        ELSE answer(200, << <<latitude, longitude, radius>> >>)

\* lines 717-771; sent lists the requests made to PLACES_API_URL
search_pharmacies(latitude, longitude, radius, key, outcome) ==
    LET answer(code, sent) ==
            [resp |-> [BaseResp EXCEPT !.op = "search_pharmacies", !.code = code],
             sent |-> sent]
    IN  IF ~(FloatLe(Degrees(0 - 90), latitude) /\ FloatLe(latitude, Degrees(90)))
        THEN answer(400, <<>>)
        ELSE IF ~(FloatLe(Degrees(0 - 180), longitude) /\ FloatLe(longitude, Degrees(180)))
        THEN answer(400, <<>>)
        ELSE IF ~(500 <= radius /\ radius <= 50000)
        THEN answer(400, <<>>)
        ELSE IF key = ""
        THEN answer(500, <<>>)
        ELSE IF outcome = "RequestException"
        THEN answer(502, << <<latitude, longitude, radius>> >>)
        ELSE answer(200, << <<latitude, longitude, radius>> >>)

\* the limits, the values next to them, a value inside, and NaN
Latitudes == {<<0 - 901>>, <<0 - 900>>, <<423>>, <<900>>, <<901>>, NaN}
Longitudes == {<<0 - 1801>>, <<0 - 1800>>, <<0 - 711>>, <<1800>>, <<1801>>, NaN}
Radii == {499, 500, 5000, 50000, 50001}

\* req keeps the request with the requests made to the Places API for it
SearchPharmacies ==
    \E latitude \in Latitudes, longitude \in Longitudes, radius \in Radii,
       key \in {"", "key"}, outcome \in {"OK", "ZERO_RESULTS", "RequestException"} :
        LET r == search_pharmacies(latitude, longitude, radius, key, outcome)
        IN  /\ resp' = r.resp
            /\ req' = [op |-> "search_pharmacies", latitude |-> latitude,
                       longitude |-> longitude, radius |-> radius, key |-> key,
                       sent |-> r.sent]
            /\ UNCHANGED <<db, now, delivered, sess, upd, rd>>

NextPharmacies == SearchPharmacies

SpecPharmacies == Init /\ [][NextPharmacies]_vars

(***************************************************************************)
(* C27  Inputs of search_pharmacies                                        *)
(***************************************************************************)
\* -90 <= latitude <= 90, -180 <= longitude <= 180, 500 <= radius <= 50000
Searchable ==
    /\ req.latitude # NaN
    /\ req.latitude[1] \in (0 - 900)..900
    /\ req.longitude # NaN
    /\ req.longitude[1] \in (0 - 1800)..1800
    /\ req.radius \in 500..50000

\* C27: search_pharmacies accepts a request exactly when -90 <= latitude <= 90,
\* -180 <= longitude <= 180 and 500 <= radius <= 50000; any other request is
\* answered 400, whether or not the API key is configured, and no request is
\* made to the Places API for it.
C27_SearchInputs ==
    req # None =>
        /\ Searchable <=> resp.code # 400
        /\ ~Searchable => req.sent = <<>>
        /\ resp.code = 500 => (Searchable /\ req.key = "")

\* a search at the limits (latitude 90, longitude -180, radius 50000) was
\* passed on to the Places API
C27_Witness ==
    /\ req # None
    /\ req.latitude = Degrees(90)
    /\ req.longitude = Degrees(0 - 180)
    /\ req.radius = 50000
    /\ resp.code = 200
    /\ req.sent # <<>>

(***************************************************************************)
(* C28  Sequential consumes deliver an occurrence once                     *)
(***************************************************************************)
\* the schedule behind entry e of a GET /reminders response, before the call
ScheduleOfEntry(e) == latest_schedule(db, e.med)

\* C28: with one request at a time, the trigger_time values returned for a
\* schedule during its lifetime are pairwise distinct, and each is the
\* schedule's next_reminder immediately before the call that returned it.
C28_SequentialNoDoubleDelivery ==
    /\ [](\A x \in delivered : x[3] = 1)
    /\ [][\A u \in UserIds :
             ConsumeStep(u) =>
                \A j \in DOMAIN resp'.out :
                   resp'.out[j].trigger_time = Pointer(db, ScheduleOfEntry(resp'.out[j]))]_vars

\* every occurrence of a schedule with three of them was returned, each once
C28_Witness ==
    /\ resp.op = "get_user_reminders"
    /\ \E s \in DOMAIN db.schedules :
          /\ Cardinality(RowsOf(db, s)) >= 3
          /\ NumPending(db, s) = 0
          /\ Cardinality({x \in delivered : x[1] = s}) = Cardinality(RowsOf(db, s))

(***************************************************************************)
(* C29  When a consume is a no-op                                          *)
(***************************************************************************)
\* the entries of the response of this step that belong to schedule s
EntriesOf(s) ==
    {j \in DOMAIN resp'.out : resp'.out[j].med = db.schedules[s].medication_id}

\* schedule s and its occurrences are left as they are by this step
Skipped(s) ==
    /\ EntriesOf(s) = {}
    /\ db'.schedules[s] = db.schedules[s]
    /\ RemindersOf(db', s) = RemindersOf(db, s)

\* one pending occurrence of schedule s is delivered by this step
DeliveredOne(s) ==
    /\ Cardinality(EntriesOf(s)) = 1
    /\ \A j \in EntriesOf(s) :
          datetime_fromisoformat(resp'.out[j].trigger_time)
              \in PendingTimes(db, s) \ PendingTimes(db', s)
    /\ NumPending(db', s) = NumPending(db, s) - 1

\* C29 as claimed: a get_user_reminders call for the owner delivers a pending
\* occurrence of every schedule that has one, and skips a schedule (no entry,
\* no change) only if it has none.
C29_Original ==
    [][\A u \in UserIds :
          ConsumeStep(u) =>
             \A s \in DOMAIN db.schedules :
                OwnerOf(db, s) = u =>
                   IF NumPending(db, s) > 0 THEN DeliveredOne(s) ELSE Skipped(s)]_vars

\* C29: a get_user_reminders call for the owner delivers one pending
\* occurrence of every schedule whose next_reminder is present, and skips a
\* schedule (no entry, no change) exactly when its next_reminder is absent:
\* then nothing is pending, or nothing has been delivered and no occurrence
\* was later than now when the schedule was created.
C29_NoOpWhenPointerAbsent ==
    [][\A u \in UserIds :
          ConsumeStep(u) =>
             \A s \in DOMAIN db.schedules :
                OwnerOf(db, s) = u =>
                   IF Pointer(db, s) # None
                   THEN DeliveredOne(s)
                   ELSE /\ Skipped(s)
                        /\ \/ NumPending(db, s) = 0
                           \/ /\ NumDelivered(db, s) = 0
                              /\ \A x \in AllTimes(db, s) : x <= now]_vars

\* of two schedules of the user, the call skipped the first, whose
\* occurrences are all pending and due, and delivered from the second
C29_Witness ==
    /\ resp.op = "get_user_reminders"
    /\ Len(resp.out) = 1
    /\ \E s, t \in DOMAIN db.schedules :
          /\ db.schedules[s].medication_id < db.schedules[t].medication_id
          /\ NumPending(db, s) > 0
          /\ NumDelivered(db, s) = 0
          /\ Pointer(db, s) = None
          /\ resp.out[1].med = db.schedules[t].medication_id
          /\ NumDelivered(db, t) = 1

(***************************************************************************)
(* C30  GET /reminders and PUT /prescriptions that overlap                 *)
(***************************************************************************)
\* the writes of update_prescription (lines 516-600) applied to D in one piece;
\* t is the clock reading of line 563, now_dt that of line 595
SerialUpdate(D, med_id, payload, t, now_dt) ==
    update_set_pointer(
        update_insert_new(update_delete_existing(D, med_id, payload), med_id, payload,
                          update_dates(D, med_id, payload), t),
        now_dt)

\* a step in which GET /reminders/1 goes on from its reads to its writes and ends
ConsumeEndStep ==
    /\ sess[1].stage = "read"
    /\ sess'[1].stage = "idle"
    /\ ~WriteLocked

\* a step in which PUT /prescriptions commits
UpdateCommitStep == upd.stage = "inserted" /\ upd'.stage = "idle"

\* every pointer of D names a pending occurrence of its own schedule
PointersPending(D) ==
    \A s \in DOMAIN D.schedules :
        Pointer(D, s) # None => datetime_fromisoformat(Pointer(D, s)) \in PendingTimes(D, s)

\* C30: a get_user_reminders call and an update_prescription call that overlap
\* each take effect as if they ran alone at the step that ends them, so that
\* the stored state and the delivered trigger_time are those of one of the two
\* serial orders: the GET answers 200 with what a whole get_user_reminders
\* returns and stores on the database it ends on, the PUT stores what its
\* writes store on the database it commits on, and every next_reminder that
\* results names a pending occurrence of a schedule that exists.
C30_Serializable ==
    [][/\ ConsumeEndStep =>
            /\ resp'.code = 200
            /\ resp'.out = get_user_reminders(db, 1).resp.out
            /\ db' = get_user_reminders(db, 1).db
            /\ PointersPending(db')
       /\ UpdateCommitStep =>
            LET new == upd.tx.sqlite_sequence.schedules
                t == datetime_fromisoformat(upd.tx.schedules[new].created_at)
            IN  /\ db' = SerialUpdate(db, upd.med_id, upd.payload, t, now)
                /\ PointersPending(db')]_vars

====
